---- MODULE Spec2Model ----
(***************************************************************************)
(* Model of the PiVot-Server inference core:                               *)
(*   - TextOutputProcessor (src/text_output_processor.py): token decoding, *)
(*     logit sampling, text cleaning, output-text extraction, formatting;        *)
(*   - NPUInferenceEngine (src/npu_inference_engine.py): the model         *)
(*     registry (load_model / unload_model) and the three inference entry  *)
(*     points.                                                             *)
(*                                                                         *)
(* A text is a sequence of characters.  A character is a TLA+ string: the   *)
(* character itself for ASCII, NL for the newline, and U+XXXX for a        *)
(* non-ASCII code point.  A number is held in tenths (42 is 420, 0.1 is 1) *)
(* so that the int() truncation of the decoder is computed, not assumed.   *)
(***************************************************************************)
EXTENDS Integers, Sequences, FiniteSets, TLC

VARIABLES
    \* ---- extractor machine (extract_text_from_multimodal_output) ----
    outputs,        \* the output map, as a sequence of <<key, value>> in insertion order
    text_candidates,\* the ranked candidate list built by the scan
    cand_idx,       \* position of the for loop over text_candidates
    attempted,      \* history: keys whose value the loop has looked at, in order
    xresult,        \* the text returned by the extractor, once xpc is done
    xpc,            \* build, loop or done (idle while the engine runs)
    \* ---- engine machine (NPUInferenceEngine) ----
    models,         \* self.models: name -> compiled handle
    model_configs,  \* self.model_configs: name -> config
    next_handle,    \* identity of the next handle the runtime compiles
    last_call,      \* history: the last completed call, its arguments and what it returned
    \* ---- text processor (TextProcessor) ----
    text_in,        \* the argument of the call: a string value, or a value that is no string
    max_length,     \* self.max_length
    tokenizer,      \* self.tokenizer: none, ok, or raises (a tokenizer whose call raises)
    tcall,          \* the last TextProcessor call and what it returned
    \* ---- image processor (ImageProcessor.resize_maintain_aspect_ratio) ----
    image_in,       \* the source image, by its width and height
    target_size,    \* the target (width, height)
    canvas,         \* the array returned, by its size and the placement of the content
    \* ---- port binding (infer_text, infer_multimodal) ----
    input_ports,    \* compiled_model.inputs: the declared input port names, in order
    processed_text, \* the keys of the tokenized text
    bound_inputs,   \* the inputs dict after binding (bound is FALSE before)
    \* ---- benchmark_model ----
    bench,          \* the run: its position, the invocations made, the sample list, the report
    \* ---- an inference in flight and a concurrent unload_model ----
    inference,      \* the inference thread: position, locals, returned value
    unloading,      \* the unload_model thread: position and name
    \* ---- a load_model concurrent with the unload_model ----
    loading,        \* the load_model thread: position, arguments, locals
    \* ---- the voice server (main_npu.py, ProductionNPUVoice) ----
    npu_voice,      \* npu_engine: whether it is ready and holds a compiled model
    voice_config,   \* npu_engine.voice_config, by its max_response_length
    requests,       \* the requests in flight or answered, in order of arrival
    \* ---- direct calls of the output side of TextOutputProcessor ----
    ocall           \* the last call: its arguments and what it returned

vars == <<outputs, text_candidates, cand_idx, attempted, xresult, xpc,
          models, model_configs, next_handle, last_call,
          text_in, max_length, tokenizer, tcall, image_in, target_size, canvas,
          input_ports, processed_text, bound_inputs, bench, inference, unloading,
          loading, npu_voice, voice_config, requests, ocall>>

xvars == <<outputs, text_candidates, cand_idx, attempted, xresult, xpc>>
evars == <<models, model_configs, next_handle, last_call>>
tvars == <<text_in, max_length, tokenizer, tcall>>
ivars == <<image_in, target_size, canvas>>
nvars == <<input_ports, processed_text, bound_inputs>>
bvars == <<bench>>
rvars == <<inference, unloading>>
lvars == <<loading>>
qvars == <<npu_voice, voice_config, requests>>
ovars == <<ocall>>
svars == <<lvars, qvars, ovars>>
\* the components beside the extractor and the engine registry
pvars == <<tvars, ivars, nvars, bvars, rvars, svars>>

None == "None"

-----------------------------------------------------------------------------
(* Characters and texts.                                                   *)

NL == "\n"

\* chr(32) .. chr(126)
Ascii ==
    <<" ", "!", "\"", "#", "$", "%", "&", "'", "(", ")", "*", "+", ",", "-",
      ".", "/", "0", "1", "2", "3", "4", "5", "6", "7", "8", "9", ":", ";",
      "<", "=", ">", "?", "@", "A", "B", "C", "D", "E", "F", "G", "H", "I",
      "J", "K", "L", "M", "N", "O", "P", "Q", "R", "S", "T", "U", "V", "W",
      "X", "Y", "Z", "[", "\\", "]", "^", "_", "U+0060", "a", "b", "c", "d", "e",
      "f", "g", "h", "i", "j", "k", "l", "m", "n", "o", "p", "q", "r", "s",
      "t", "u", "v", "w", "x", "y", "z", "{", "|", "}", "~">>

Chr(n) == Ascii[n - 31]

LowerLetters == [i \in 1..26 |-> Ascii[65 + i]]
UpperLetters == [i \in 1..26 |-> Ascii[33 + i]]

UpperOf == [c \in {LowerLetters[i] : i \in 1..26} |->
               UpperLetters[CHOOSE i \in 1..26 : LowerLetters[i] = c]]
LowerOf == [c \in {UpperLetters[i] : i \in 1..26} |->
               LowerLetters[CHOOSE i \in 1..26 : UpperLetters[i] = c]]

\* str.upper() on one character
Upper(c) == IF c \in DOMAIN UpperOf THEN UpperOf[c] ELSE c

\* str.lower() on one character
Lower(c) == IF c \in DOMAIN LowerOf THEN LowerOf[c] ELSE c

LowerStr(s) == [i \in 1..Len(s) |-> Lower(s[i])]

\* str.isspace() / the regex class \s, on the characters the model uses
IsSpace(c) == c \in {" ", NL, "\t", "\r", "U+001F"}

\* the characters of a text at the positions in keep, in order
RECURSIVE KeepIdx(_, _, _)
KeepIdx(text, keep, i) ==
    IF i > Len(text) THEN <<>>
    ELSE (IF i \in keep THEN <<text[i]>> ELSE <<>>) \o KeepIdx(text, keep, i + 1)

\* sub in text (the substring test of Python strings)
Contains(text, sub) ==
    \E i \in 0..(Len(text) - Len(sub)) : SubSeq(text, i + 1, i + Len(sub)) = sub

EndsWith(text, sub) ==
    /\ Len(text) >= Len(sub)
    /\ SubSeq(text, Len(text) - Len(sub) + 1, Len(text)) = sub

\* str.replace(tok, ''): left to right, non-overlapping
RECURSIVE RemoveToken(_, _)
RemoveToken(text, tok) ==
    IF ~Contains(text, tok) THEN text
    ELSE IF SubSeq(text, 1, Len(tok)) = tok
         THEN RemoveToken(SubSeq(text, Len(tok) + 1, Len(text)), tok)
         ELSE <<Head(text)>> \o RemoveToken(Tail(text), tok)

\* str.replace(a, b) for single characters
ReplaceChar(text, a, b) == [i \in 1..Len(text) |-> IF text[i] = a THEN b ELSE text[i]]

\* re.sub(c+, c): every run of c becomes one c
CollapseRuns(text, c) ==
    KeepIdx(text, {i \in 1..Len(text) : ~(i > 1 /\ text[i] = c /\ text[i-1] = c)}, 1)

\* str.strip()
Strip(text) ==
    LET solid == {i \in 1..Len(text) : ~IsSpace(text[i])}
    IN  IF solid = {} THEN <<>>
        ELSE SubSeq(text,
                    CHOOSE i \in solid : \A j \in solid : i <= j,
                    CHOOSE i \in solid : \A j \in solid : i >= j)

\* str.split('.')
RECURSIVE SplitDot(_)
SplitDot(text) ==
    LET dots == {i \in 1..Len(text) : text[i] = "."}
    IN  IF dots = {} THEN <<text>>
        ELSE LET d == CHOOSE i \in dots : \A j \in dots : i <= j
             IN  <<SubSeq(text, 1, d - 1)>> \o SplitDot(SubSeq(text, d + 1, Len(text)))

\* '. '.join(parts)
RECURSIVE JoinDotSpace(_)
JoinDotSpace(parts) ==
    IF Len(parts) = 0 THEN <<>>
    ELSE IF Len(parts) = 1 THEN parts[1]
    ELSE parts[1] \o <<".", " ">> \o JoinDotSpace(Tail(parts))

-----------------------------------------------------------------------------
(* TextOutputProcessor: the fixed strings.                                 *)

\* the extractor's failure sentinel
ExtractFailed ==
    <<"U+30C6", "U+30AD", "U+30B9", "U+30C8", "U+51FA", "U+529B", "U+306E",
      "U+62BD", "U+51FA", "U+306B", "U+5931", "U+6557", "U+3057", "U+307E",
      "U+3057", "U+305F", "U+3002">>

\* the sentinel format_conversation_output returns for an empty text
NoResponse ==
    <<"U+5FDC", "U+7B54", "U+3092", "U+751F", "U+6210", "U+3067", "U+304D",
      "U+307E", "U+305B", "U+3093", "U+3067", "U+3057", "U+305F", "U+3002">>

\* the marker process_logits_to_text returns when it fails
GenerationError ==
    <<"[", "G", "e", "n", "e", "r", "a", "t", "i", "o", "n", " ",
      "E", "r", "r", "o", "r", "]">>

special_tokens ==
    << <<"<", "p", "a", "d", ">">>,
       <<"<", "u", "n", "k", ">">>,
       <<"<", "s", ">">>,
       <<"<", "/", "s", ">">>,
       <<"<", "|", "e", "n", "d", "o", "f", "t", "e", "x", "t", "|", ">">>,
       <<"[", "C", "L", "S", "]">>,
       <<"[", "S", "E", "P", "]">>,
       <<"[", "P", "A", "D", "]">>,
       <<"[", "U", "N", "K", "]">>,
       <<"[", "M", "A", "S", "K", "]">> >>

priority_keys ==
    <<"generated_text", "text_output", "caption", "description", "answer",
      "response", "prediction", "output_text", "decoded_text", "text",
      "content">>

\* the keys the model uses, spelled out so that substring tests are computed
KeyChars(key) ==
    CASE key = "generated_text" ->
            <<"g", "e", "n", "e", "r", "a", "t", "e", "d", "_", "t", "e", "x", "t">>
      [] key = "text_output" -> <<"t", "e", "x", "t", "_", "o", "u", "t", "p", "u", "t">>
      [] key = "caption" -> <<"c", "a", "p", "t", "i", "o", "n">>
      [] key = "description" -> <<"d", "e", "s", "c", "r", "i", "p", "t", "i", "o", "n">>
      [] key = "answer" -> <<"a", "n", "s", "w", "e", "r">>
      [] key = "response" -> <<"r", "e", "s", "p", "o", "n", "s", "e">>
      [] key = "prediction" -> <<"p", "r", "e", "d", "i", "c", "t", "i", "o", "n">>
      [] key = "output_text" -> <<"o", "u", "t", "p", "u", "t", "_", "t", "e", "x", "t">>
      [] key = "decoded_text" -> <<"d", "e", "c", "o", "d", "e", "d", "_", "t", "e", "x", "t">>
      [] key = "text" -> <<"t", "e", "x", "t">>
      [] key = "content" -> <<"c", "o", "n", "t", "e", "n", "t">>
      [] key = "my_text" -> <<"m", "y", "_", "t", "e", "x", "t">>
      [] key = "Text" -> <<"T", "e", "x", "t">>
      [] key = "some_logits" -> <<"s", "o", "m", "e", "_", "l", "o", "g", "i", "t", "s">>
      [] key = "text_logits" -> <<"t", "e", "x", "t", "_", "l", "o", "g", "i", "t", "s">>
      [] key = "embedding" -> <<"e", "m", "b", "e", "d", "d", "i", "n", "g">>
      [] key = "logits" -> <<"l", "o", "g", "i", "t", "s">>
      [] key = "pixel_values" -> <<"p", "i", "x", "e", "l", "_", "v", "a", "l", "u", "e", "s">>
      [] key = "input_ids" -> <<"i", "n", "p", "u", "t", "_", "i", "d", "s">>
      [] key = "attention_mask" ->
            <<"a", "t", "t", "e", "n", "t", "i", "o", "n", "_", "m", "a", "s", "k">>
      [] key = "input" -> <<"i", "n", "p", "u", "t">>
      [] key = "x" -> <<"x">>
      [] key = "inputs" -> <<"i", "n", "p", "u", "t", "s">>
      [] key = "Input_Image" -> <<"I", "n", "p", "u", "t", "_", "I", "m", "a", "g", "e">>
      [] key = "token_type_ids" ->
            <<"t", "o", "k", "e", "n", "_", "t", "y", "p", "e", "_", "i", "d", "s">>

-----------------------------------------------------------------------------
(* Values of an output map.  One record shape for every Python type:       *)
(*   kind = str      : s is the text                                       *)
(*   kind = list     : a list; first says what its first element is        *)
(*                     (str: s is that element; num: nums are the elements *)
(*                     in tenths; empty; other)                            *)
(*   kind = tuple    : the same for a tuple                                *)
(*   kind = ndarray  : ndim in 1..3 and data, always nested three deep     *)
(*                     (a 1-D array v is <<<<v>>>>, a 2-D array of rows is *)
(*                     <<rows>>, a 3-D array is its sequence of batches)   *)
(*   kind = other    : any other object (None, a number, a dict)           *)

StrVal(t) == [kind |-> "str", first |-> "", s |-> t, nums |-> <<>>, ndim |-> 0, data |-> <<>>]
StrListVal(t) == [kind |-> "list", first |-> "str", s |-> t, nums |-> <<>>, ndim |-> 0, data |-> <<>>]
NumListVal(n) == [kind |-> "list", first |-> "num", s |-> <<>>, nums |-> n, ndim |-> 0, data |-> <<>>]
NumTupleVal(n) == [kind |-> "tuple", first |-> "num", s |-> <<>>, nums |-> n, ndim |-> 0, data |-> <<>>]
EmptyListVal == [kind |-> "list", first |-> "empty", s |-> <<>>, nums |-> <<>>, ndim |-> 0, data |-> <<>>]
OtherListVal == [kind |-> "list", first |-> "other", s |-> <<>>, nums |-> <<>>, ndim |-> 0, data |-> <<>>]
Array1(v) == [kind |-> "ndarray", first |-> "", s |-> <<>>, nums |-> <<>>, ndim |-> 1, data |-> << <<v>> >>]
Array2(rows) == [kind |-> "ndarray", first |-> "", s |-> <<>>, nums |-> <<>>, ndim |-> 2, data |-> <<rows>>]
Array3(batches) == [kind |-> "ndarray", first |-> "", s |-> <<>>, nums |-> <<>>, ndim |-> 3, data |-> batches]
OtherVal == [kind |-> "other", first |-> "", s |-> <<>>, nums |-> <<>>, ndim |-> 0, data |-> <<>>]

RECURSIVE Concat(_)
Concat(seqs) == IF Len(seqs) = 0 THEN <<>> ELSE Head(seqs) \o Concat(Tail(seqs))

\* ndarray.flatten().tolist()
Flatten(v) == Concat([b \in 1..Len(v.data) |-> Concat(v.data[b])])

\* int(t) of a number held in tenths: truncation toward zero
IntOf(t) == IF t >= 0 THEN t \div 10 ELSE -((-t) \div 10)

-----------------------------------------------------------------------------
(* TextOutputProcessor.decode_token_ids, without a tokenizer (the default  *)
(* instance the engine uses is built with tokenizer=None).                 *)

decode_token_ids(token_ids) ==
    LET printable == {i \in 1..Len(token_ids) :
                         32 <= IntOf(token_ids[i]) /\ IntOf(token_ids[i]) <= 126}
        chars == KeepIdx([i \in 1..Len(token_ids) |->
                             IF i \in printable THEN Chr(IntOf(token_ids[i])) ELSE ""],
                         printable, 1)
    IN  Strip(chars)

-----------------------------------------------------------------------------
(* TextOutputProcessor.process_logits_to_text with its default arguments.  *)

top_k == 5
temperature == 1

\* lines 51-55: the reduction to one distribution; ok is FALSE where numpy
\* raises IndexError (no batch, no row)
ReduceLogits(v) ==
    LET rows == IF v.ndim = 1 THEN <<>>
                ELSE IF Len(v.data) = 0 THEN <<>> ELSE v.data[1]
    IN  IF v.ndim = 1 THEN [ok |-> TRUE, vec |-> v.data[1][1]]
        ELSE IF v.ndim = 3 /\ Len(v.data) = 0 THEN [ok |-> FALSE, vec |-> <<>>]
        ELSE IF Len(rows) = 0 THEN [ok |-> FALSE, vec |-> <<>>]
        ELSE [ok |-> TRUE, vec |-> rows[Len(rows)]]

\* line 58
ScaleLogits(vec) == [i \in 1..Len(vec) |-> vec[i] \div temperature]

\* a sampling over every index of the distribution
SampleableIdsAll(vec) == {i - 1 : i \in 1..Len(vec)}

\* lines 61-70: the token ids (0-based indices) the sampling can select: an
\* index is in some choice of the top_k highest scores iff fewer than top_k
\* scores are strictly greater; every one of them has positive probability
SampleableIds(vec) ==
    {i - 1 : i \in {j \in 1..Len(vec) :
                       Cardinality({m \in 1..Len(vec) : vec[m] > vec[j]}) < top_k}}

\* the set of texts process_logits_to_text can return for an ndarray
process_logits_to_text(v) ==
    LET r == ReduceLogits(v)
    IN  IF ~r.ok \/ Len(r.vec) < top_k
        THEN {GenerationError}
        ELSE {decode_token_ids(<<10 * id>>) : id \in SampleableIds(ScaleLogits(r.vec))}

-----------------------------------------------------------------------------
(* TextOutputProcessor.clean_generated_text.                               *)

\* lines 88-89
RECURSIVE RemoveSpecialTokens(_, _)
RemoveSpecialTokens(text, i) ==
    IF i > Len(special_tokens) THEN text
    ELSE RemoveSpecialTokens(RemoveToken(text, special_tokens[i]), i + 1)

IsPunct(c) == c \in {".", ",", "!", "?", ";", ":"}

\* line 98: every whitespace run that a punctuation mark follows is removed
RemoveSpaceBeforePunct(text) ==
    KeepIdx(text,
            {i \in 1..Len(text) :
                ~(/\ IsSpace(text[i])
                  /\ \E j \in (i+1)..Len(text) :
                        /\ IsPunct(text[j])
                        /\ \A m \in i..(j-1) : IsSpace(text[m]))},
            1)

\* lines 104-107 for one fragment
CapitalizeSentence(sentence) ==
    [i \in 1..Len(sentence) |-> IF i = 1 THEN Upper(sentence[i]) ELSE sentence[i]]

\* lines 101-109
CleanSentences(text) ==
    LET sentences == SplitDot(text)
        stripped == [i \in 1..Len(sentences) |-> Strip(sentences[i])]
        kept == SelectSeq(stripped, LAMBDA f : Len(f) > 0)
    IN  JoinDotSpace([i \in 1..Len(kept) |-> CapitalizeSentence(kept[i])])

\* lines 112-113
AddFinalPeriod(text) ==
    IF Len(text) > 0 /\ text[Len(text)] \notin {".", "!", "?"}
    THEN Append(text, ".")
    ELSE text

clean_generated_text(text) ==
    IF Len(text) = 0 THEN <<>>
    ELSE LET t1 == RemoveSpecialTokens(text, 1)
             t2 == CollapseRuns(t1, NL)
             t3 == CollapseRuns(t2, " ")
             t4 == RemoveSpaceBeforePunct(t3)
             t5 == CleanSentences(t4)
         IN  Strip(AddFinalPeriod(t5))

-----------------------------------------------------------------------------
(* TextOutputProcessor.extract_text_from_multimodal_output.                *)
(* An output map is a sequence of entries [key, value] with distinct keys, *)
(* in insertion order (the iteration order of a Python dict).              *)

HasKey(outs, k) == \E i \in 1..Len(outs) : outs[i].key = k
ValueOf(outs, k) == outs[CHOOSE i \in 1..Len(outs) : outs[i].key = k].value
InPriorityKeys(k) == \E i \in 1..Len(priority_keys) : priority_keys[i] = k

KeyHasText(k) == Contains(LowerStr(KeyChars(k)), <<"t", "e", "x", "t">>)
KeyHasLogit(k) == Contains(LowerStr(KeyChars(k)), <<"l", "o", "g", "i", "t">>)

Candidate(k, v, p) == [key |-> k, value |-> v, priority |-> p]

\* lines 133-135
PriorityCandidates(outs) ==
    LET present == SelectSeq(priority_keys, LAMBDA k : HasKey(outs, k))
    IN  [i \in 1..Len(present) |-> Candidate(present[i], ValueOf(outs, present[i]), 10)]

\* a scan that forgets the substring test: every key outside priority_keys
TextCandidatesAnyKey(outs) ==
    LET hit == SelectSeq(outs, LAMBDA e : ~InPriorityKeys(e.key))
    IN  [i \in 1..Len(hit) |-> Candidate(hit[i].key, hit[i].value, 5)]

\* lines 138-140
TextCandidates(outs) ==
    LET hit == SelectSeq(outs, LAMBDA e : ~InPriorityKeys(e.key) /\ KeyHasText(e.key))
    IN  [i \in 1..Len(hit) |-> Candidate(hit[i].key, hit[i].value, 5)]

\* lines 143-145
LogitCandidates(outs) ==
    LET hit == SelectSeq(outs, LAMBDA e : KeyHasLogit(e.key)
                                          /\ e.value.kind \in {"list", "ndarray"})
    IN  [i \in 1..Len(hit) |-> Candidate(hit[i].key, hit[i].value, 1)]

\* line 148: list.sort(key=priority, reverse=True), a stable sort
RECURSIVE InsertByPriority(_, _)
InsertByPriority(c, sorted) ==
    IF Len(sorted) = 0 THEN <<c>>
    ELSE IF Head(sorted).priority <= c.priority THEN <<c>> \o sorted
    ELSE <<Head(sorted)>> \o InsertByPriority(c, Tail(sorted))

\* the sort without reverse=True: lowest priority first
SortByPriorityAscending(cands) ==
    SelectSeq(cands, LAMBDA c : c.priority = 1)
    \o SelectSeq(cands, LAMBDA c : c.priority = 5)
    \o SelectSeq(cands, LAMBDA c : c.priority = 10)

\* an ascending sort that is then reversed: ties come out in reverse order
SortByPriorityReversed(cands) ==
    LET backwards == [i \in 1..Len(cands) |-> cands[Len(cands) + 1 - i]]
    IN  SelectSeq(backwards, LAMBDA c : c.priority = 10)
        \o SelectSeq(backwards, LAMBDA c : c.priority = 5)
        \o SelectSeq(backwards, LAMBDA c : c.priority = 1)

RECURSIVE SortByPriority(_)
SortByPriority(cands) ==
    IF Len(cands) = 0 THEN <<>>
    ELSE InsertByPriority(Head(cands), SortByPriority(Tail(cands)))

\* lines 123-148
RankedCandidates(outs) ==
    SortByPriority(PriorityCandidates(outs) \o TextCandidates(outs) \o LogitCandidates(outs))

Returns(t) == [returns |-> TRUE, text |-> t]
NextCandidate == [returns |-> FALSE, text |-> <<>>]

\* lines 151-172, one pass of the loop body: the set of its possible
\* outcomes, a return of a text or a fall through to the next candidate
DecodeCandidate(key, value) ==
    IF value.kind = "str" THEN {Returns(clean_generated_text(value.s))}
    ELSE IF value.kind \in {"list", "tuple"}
    THEN IF value.first = "str" THEN {Returns(clean_generated_text(value.s))}
         ELSE IF value.first = "num"
              THEN {Returns(clean_generated_text(decode_token_ids(value.nums)))}
              ELSE {NextCandidate}
    ELSE IF value.kind = "ndarray"
    THEN IF KeyHasLogit(key)
         THEN {Returns(clean_generated_text(g)) : g \in process_logits_to_text(value)}
         ELSE {Returns(clean_generated_text(decode_token_ids(Flatten(value))))}
    ELSE {NextCandidate}

\* lines 150-179: the texts the loop can return from candidate i on
RECURSIVE ExtractFrom(_, _)
ExtractFrom(cands, i) ==
    IF i > Len(cands) THEN {ExtractFailed}
    ELSE UNION {IF o.returns THEN {o.text} ELSE ExtractFrom(cands, i + 1) :
                   o \in DecodeCandidate(cands[i].key, cands[i].value)}

\* the set of texts extract_text_from_multimodal_output(outs) can return
extract_text_from_multimodal_output(outs) == ExtractFrom(RankedCandidates(outs), 1)

-----------------------------------------------------------------------------
(* The output maps the extractor is run on.                                *)

MaxOutputs == 2

Keys == {"generated_text", "answer", "my_text", "some_logits", "text_logits", "embedding"}

\* scores whose top_k highest sit at the token ids 33..37
LogitsPrintable == Array1([i \in 1..38 |-> IF i > 33 THEN 10 * i ELSE 0])
\* the scores 0.1, 5.0, 0.3: fewer than top_k entries
LogitsShort == Array1(<<1, 50, 3>>)

Values ==
    { StrVal(<<>>), StrVal(<<"4", "2">>), StrVal(<<"<", "s", ">">>),
      NumListVal(<<720, 1050>>), NumListVal(<<1, 50, 3>>), EmptyListVal,
      LogitsPrintable, LogitsShort, OtherVal }

-----------------------------------------------------------------------------
(* TextOutputProcessor.format_conversation_output (add_context = True).    *)

Question == <<"U+8CEA", "U+554F">>
Explain == <<"U+8AAC", "U+660E">>
Teach == <<"U+6559", "U+3048">>

IsQuestionPrompt(user_prompt) ==
    \/ Contains(user_prompt, Question)
    \/ Contains(user_prompt, <<"?">>)
    \/ Contains(user_prompt, <<"U+FF1F">>)

IsExplainPrompt(user_prompt) ==
    Contains(user_prompt, Explain) \/ Contains(user_prompt, Teach)

\* a formatter whose explanation branch leaves the text as cleaned
FormatConversationUnflattened(text, user_prompt) ==
    IF Len(text) = 0 THEN NoResponse
    ELSE LET t == clean_generated_text(text)
         IN  IF Len(user_prompt) = 0 THEN t
             ELSE IF IsQuestionPrompt(user_prompt)
                  THEN IF Len(t) > 0 /\ t[Len(t)] \in {".", "!", "?", "U+3002", "U+FF01", "U+FF1F"}
                       THEN t
                       ELSE t \o <<"U+3002">>
             ELSE t

format_conversation_output(text, user_prompt) ==
    IF Len(text) = 0 THEN NoResponse
    ELSE LET t == clean_generated_text(text)
         IN  IF Len(user_prompt) = 0 THEN t
             ELSE IF IsQuestionPrompt(user_prompt)
                  THEN IF Len(t) > 0 /\ t[Len(t)] \in {".", "!", "?", "U+3002", "U+FF01", "U+FF1F"}
                       THEN t
                       ELSE t \o <<"U+3002">>
             ELSE IF IsExplainPrompt(user_prompt) THEN ReplaceChar(t, NL, " ")
             ELSE t

-----------------------------------------------------------------------------
(* NPUInferenceEngine: the registry.                                       *)

Names == {"m1", "m2"}
ModelTypes == {"vision", "text", "multimodal"}

\* The model files of the environment: whether the path exists, whether the
\* runtime compiles it (NPUManager.compile_model returns None otherwise),
\* whether its ports carry a name (any_name raises otherwise), and the names
\* of its declared input and output ports in declaration order.
ModelFile(path) ==
    CASE path = "missing.xml" ->
            [exists |-> FALSE, compiles |-> FALSE, named |-> FALSE,
             inputs |-> <<>>, outputs |-> <<>>]
      [] path = "broken.xml" ->
            [exists |-> TRUE, compiles |-> FALSE, named |-> FALSE,
             inputs |-> <<>>, outputs |-> <<>>]
      [] path = "noname.xml" ->
            [exists |-> TRUE, compiles |-> TRUE, named |-> FALSE,
             inputs |-> <<>>, outputs |-> <<>>]
      [] path = "vision.xml" ->
            [exists |-> TRUE, compiles |-> TRUE, named |-> TRUE,
             inputs |-> <<"input">>, outputs |-> <<"logits">>]
      [] path = "caption.xml" ->
            [exists |-> TRUE, compiles |-> TRUE, named |-> TRUE,
             inputs |-> <<"pixel_values", "input_ids", "attention_mask">>,
             outputs |-> <<"generated_text">>]
      [] path = "embed.xml" ->
            [exists |-> TRUE, compiles |-> TRUE, named |-> TRUE,
             inputs |-> <<"x">>, outputs |-> <<"embedding">>]

Paths == {"missing.xml", "broken.xml", "noname.xml", "caption.xml", "embed.xml"}

MaxHandles == 2

\* dict operations
Put(d, k, v) == [n \in DOMAIN d \cup {k} |-> IF n = k THEN v ELSE d[n]]
Del(d, k) == [n \in DOMAIN d \ {k} |-> d[n]]

NoHandle == [id |-> 0, path |-> None]

\* NPUManager.compile_model: a fresh compiled handle, or NoHandle for None
compile_model(path, id) ==
    IF ModelFile(path).compiles THEN [id |-> id, path |-> path] ELSE NoHandle

\* a registry that keeps the handle a name already has
StoreHandleKeepOld(ms, model_name, compiled_model) ==
    IF model_name \in DOMAIN ms THEN ms ELSE Put(ms, model_name, compiled_model)

\* line 59
StoreHandle(ms, model_name, compiled_model) == Put(ms, model_name, compiled_model)

\* lines 62-83: the config built from the compiled handle
ModelConfig(model_type, model_path, compiled_model) ==
    [type |-> model_type, path |-> model_path,
     inputs |-> ModelFile(compiled_model.path).inputs,
     outputs |-> ModelFile(compiled_model.path).outputs]

\* lines 77-83
StoreConfig(cfgs, model_name, cfg) == Put(cfgs, model_name, cfg)

\* get_model_info: the config, or NoConfig for None
NoConfig == [type |-> None, path |-> None, inputs |-> <<>>, outputs |-> <<>>]
get_model_info(model_name) ==
    IF model_name \in DOMAIN model_configs THEN model_configs[model_name] ELSE NoConfig

\* list_loaded_models, as a set
list_loaded_models == DOMAIN models

\* the result of an inference call: Python None (isnone), or a dict with the
\* keys in fields; generated_text is meaningful when it is among the fields
NoResult ==
    [isnone |-> TRUE, success |-> FALSE, fields |-> {}, generated_text |-> <<>>,
     outputs |-> <<>>]

\* the history record of a completed call
NoCall ==
    [op |-> "none", name |-> None, path |-> None, type |-> None, ret |-> FALSE,
     was_loaded |-> FALSE, handle |-> NoHandle, prompt |-> <<>>, image_ok |-> FALSE,
     text_keys |-> {}, pre_done |-> FALSE, inputs |-> <<>>, invocations |-> 0,
     invoke_raised |-> FALSE, result |-> NoResult]

RegistryCall(op, name, path, type, ret, was_loaded, handle) ==
    [op |-> op, name |-> name, path |-> path, type |-> type, ret |-> ret,
     was_loaded |-> was_loaded, handle |-> handle, prompt |-> <<>>, image_ok |-> FALSE,
     text_keys |-> {}, pre_done |-> FALSE, inputs |-> <<>>, invocations |-> 0,
     invoke_raised |-> FALSE, result |-> NoResult]

\* a load that stops early only on a missing file
LoadFailsWhenMissing(model_path) == ~ModelFile(model_path).exists

\* load_model, lines 45-49 and 52-56: the two early returns of False
LoadFailsEarly(model_path) ==
    ~ModelFile(model_path).exists \/ ~ModelFile(model_path).compiles

load_model(model_name, model_path, model_type) ==
    LET compiled_model == compile_model(model_path, next_handle)
        was == model_name \in DOMAIN models
    IN  IF LoadFailsEarly(model_path)
        THEN /\ UNCHANGED <<models, model_configs, next_handle>>
             /\ last_call' = RegistryCall("load_model", model_name, model_path,
                                          model_type, FALSE, was, NoHandle)
        ELSE /\ next_handle <= MaxHandles
             /\ next_handle' = next_handle + 1
             /\ models' = StoreHandle(models, model_name, compiled_model)
             /\ IF ModelFile(model_path).named
                THEN /\ model_configs' =
                            StoreConfig(model_configs, model_name,
                                        ModelConfig(model_type, model_path, compiled_model))
                     /\ last_call' = RegistryCall("load_model", model_name, model_path,
                                                  model_type, TRUE, was, compiled_model)
                ELSE \* any_name raises at line 66: the except clause returns False
                     /\ UNCHANGED model_configs
                     /\ last_call' = RegistryCall("load_model", model_name, model_path,
                                                  model_type, FALSE, was, compiled_model)

\* unload_model, lines 97-109
unload_model(model_name) ==
    IF model_name \in DOMAIN models
    THEN /\ models' = Del(models, model_name)
         /\ IF model_name \in DOMAIN model_configs
            THEN /\ model_configs' = Del(model_configs, model_name)
                 /\ last_call' = RegistryCall("unload_model", model_name, None, None,
                                              TRUE, TRUE, NoHandle)
            ELSE \* del raises KeyError at line 100: the except clause returns False
                 /\ UNCHANGED model_configs
                 /\ last_call' = RegistryCall("unload_model", model_name, None, None,
                                              FALSE, TRUE, NoHandle)
         /\ UNCHANGED next_handle
    ELSE /\ UNCHANGED <<models, model_configs, next_handle>>
         /\ last_call' = RegistryCall("unload_model", model_name, None, None,
                                      FALSE, FALSE, NoHandle)

-----------------------------------------------------------------------------
(* NPUInferenceEngine: the inference entry points.                         *)
(* The environment of a call: whether the image decodes (the image         *)
(* processor returns None otherwise), the keys of the tokenized text,      *)
(* whether the compiled model raises when invoked, and the arrays it       *)
(* returns, one per declared output port.                                  *)

\* the arrays a compiled model returns: the token ids of Hi, the token ids
\* 1 and 2 (nothing printable), and scores with fewer than top_k entries
ResultArrays == {Array1(<<720, 1050>>), Array1(<<10, 20>>), LogitsShort}

RECURSIVE SeqsOf(_, _)
SeqsOf(S, n) ==
    IF n = 0 THEN {<<>>} ELSE {Append(q, e) : q \in SeqsOf(S, n - 1), e \in S}

InvokeResults(file) == SeqsOf(ResultArrays, Len(file.outputs))

\* the keys of TextProcessor.process_for_inference's result
TextKeySets == {{"input_ids", "attention_mask"}}

\* the prompts: a question, a request for an explanation, a plain sentence
Prompts == {<<"w", "h", "y", "?">>, Explain \o <<"!">>, <<"h", "i">>}

\* lines 168-170, 248-250, 345-347: the output map of a call
OutputMap(file, result) ==
    [i \in 1..Len(file.outputs) |-> [key |-> file.outputs[i], value |-> result[i]]]

\* an except clause that returns None
FailureResultAbsent ==
    [isnone |-> TRUE, success |-> FALSE, fields |-> {}, generated_text |-> <<>>,
     outputs |-> <<>>]

\* an except clause that reports the timing collected so far
FailureResultTimed ==
    [isnone |-> FALSE, success |-> FALSE,
     fields |-> {"success", "error", "model_name", "timing"},
     generated_text |-> <<>>, outputs |-> <<>>]

\* the dict the except clause returns (lines 187-191, 267-271, 387-391)
FailureResult ==
    [isnone |-> FALSE, success |-> FALSE, fields |-> {"success", "error", "model_name"},
     generated_text |-> <<>>, outputs |-> <<>>]

\* the dict a call returns on success; extra names the entry point's own key
SuccessResult(extra, outs) ==
    [isnone |-> FALSE, success |-> TRUE,
     fields |-> {"success", "outputs", "model_name", "timing", "device", extra},
     generated_text |-> <<>>, outputs |-> outs]

\* the history record of an inference call: its arguments and environment
\* (image_ok, text_keys), how far it came (pre_done: the preprocess duration
\* was taken; inputs: the bound input map; invocations: calls of the
\* compiled model; invoke_raised: that call raised) and what it returned
InferCall(op, name, prompt, image_ok, text_keys, pre_done, inputs, invocations, invoke_raised, result) ==
    [op |-> op, name |-> name, path |-> None, type |-> None, ret |-> FALSE,
     was_loaded |-> name \in DOMAIN models,
     handle |-> IF name \in DOMAIN models THEN models[name] ELSE NoHandle,
     prompt |-> prompt, image_ok |-> image_ok, text_keys |-> text_keys,
     pre_done |-> pre_done, inputs |-> inputs, invocations |-> invocations,
     invoke_raised |-> invoke_raised, result |-> result]

\* an infer_image without the check of the preprocessed image: the model is
\* invoked on whatever the image processor returned
InferImageUnchecked(model_name, image_ok, raises) ==
    /\ UNCHANGED <<models, model_configs, next_handle>>
    /\ IF model_name \notin DOMAIN models
       THEN last_call' = InferCall("infer_image", model_name, <<>>, image_ok, {}, FALSE,
                                   <<>>, 0, FALSE, NoResult)
       ELSE last_call' = InferCall("infer_image", model_name, <<>>, image_ok, {}, TRUE,
                                   <<>>, 1, TRUE, FailureResult)

\* infer_image, lines 131-191
infer_image(model_name, image_ok, raises) ==
    /\ UNCHANGED <<models, model_configs, next_handle>>
    /\ IF model_name \notin DOMAIN models
       THEN last_call' = InferCall("infer_image", model_name, <<>>, image_ok, {}, FALSE,
                                   <<>>, 0, FALSE, NoResult)
       ELSE IF ~image_ok
       THEN last_call' = InferCall("infer_image", model_name, <<>>, image_ok, {}, FALSE,
                                   <<>>, 0, FALSE, NoResult)
       ELSE LET file == ModelFile(models[model_name].path)
            IN  IF ~file.named
                THEN \* any_name raises at line 159
                     last_call' = InferCall("infer_image", model_name, <<>>, image_ok, {},
                                            TRUE, <<>>, 0, FALSE, FailureResult)
                ELSE IF raises
                THEN last_call' = InferCall("infer_image", model_name, <<>>, image_ok, {},
                                            TRUE, <<>>, 1, TRUE, FailureResult)
                ELSE \E result \in InvokeResults(file) :
                        last_call' = InferCall("infer_image", model_name, <<>>, image_ok, {},
                                               TRUE, <<>>, 1, FALSE,
                                               SuccessResult("input_shape",
                                                             OutputMap(file, result)))

\* lines 232-235: the tensor one port receives in infer_text (None: none)
TextTensorFor(input_name, text_keys) ==
    IF input_name \in text_keys THEN input_name
    ELSE IF "input_ids" \in text_keys /\ input_name \in {"input", "input_ids", "inputs"}
         THEN "input_ids"
         ELSE None

\* lines 229-235: the binding of the tokenized text in infer_text
RECURSIVE BindTextWithFallback(_, _, _)
BindTextWithFallback(ports, text_keys, inputs) ==
    IF Len(ports) = 0 THEN inputs
    ELSE BindTextWithFallback(
             Tail(ports), text_keys,
             IF TextTensorFor(Head(ports), text_keys) # None
             THEN Put(inputs, Head(ports), TextTensorFor(Head(ports), text_keys))
             ELSE inputs)

\* infer_text, lines 205-271
infer_text(model_name, text_input, text_keys, raises) ==
    /\ UNCHANGED <<models, model_configs, next_handle>>
    /\ IF model_name \notin DOMAIN models
       THEN last_call' = InferCall("infer_text", model_name, text_input, FALSE, text_keys,
                                   FALSE, <<>>, 0, FALSE, NoResult)
       ELSE LET file == ModelFile(models[model_name].path)
                inputs == BindTextWithFallback(file.inputs, text_keys, <<>>)
            IN  IF ~file.named
                THEN \* any_name raises at line 231
                     last_call' = InferCall("infer_text", model_name, text_input, FALSE,
                                            text_keys, TRUE, <<>>, 0, FALSE, FailureResult)
                ELSE IF DOMAIN inputs = {}
                THEN last_call' = InferCall("infer_text", model_name, text_input, FALSE,
                                            text_keys, TRUE, inputs, 0, FALSE, NoResult)
                ELSE IF raises
                THEN last_call' = InferCall("infer_text", model_name, text_input, FALSE,
                                            text_keys, TRUE, inputs, 1, TRUE, FailureResult)
                ELSE \E result \in InvokeResults(file) :
                        last_call' = InferCall("infer_text", model_name, text_input, FALSE,
                                               text_keys, TRUE, inputs, 1, FALSE,
                                               SuccessResult("input_text_length",
                                                             OutputMap(file, result)))

image_input_names ==
    << <<"i", "m", "a", "g", "e">>,
       <<"i", "m", "a", "g", "e", "s">>,
       <<"p", "i", "x", "e", "l", "_", "v", "a", "l", "u", "e", "s">>,
       <<"i", "n", "p", "u", "t", "_", "i", "m", "a", "g", "e">> >>

IsImagePort(input_name) ==
    \E i \in 1..Len(image_input_names) :
        Contains(LowerStr(KeyChars(input_name)), image_input_names[i])

\* a binding without the break: every matching port receives the image
BindImageEvery(ports, inputs) ==
    [n \in DOMAIN inputs \cup {ports[i] : i \in {j \in 1..Len(ports) : IsImagePort(ports[j])}} |->
        IF \E i \in 1..Len(ports) : ports[i] = n /\ IsImagePort(n) THEN "IMAGE" ELSE inputs[n]]

\* lines 322-327: the image tensor goes to the first matching port
BindImage(ports, inputs) ==
    LET hits == {i \in 1..Len(ports) : IsImagePort(ports[i])}
    IN  IF hits = {} THEN inputs
        ELSE Put(inputs, ports[CHOOSE i \in hits : \A j \in hits : i <= j], "IMAGE")

\* lines 330-333: the binding of the tokenized text in infer_multimodal
RECURSIVE BindText(_, _, _)
BindText(ports, text_keys, inputs) ==
    IF Len(ports) = 0 THEN inputs
    ELSE BindText(Tail(ports), text_keys,
                  IF Head(ports) \in text_keys
                  THEN Put(inputs, Head(ports), Head(ports))
                  ELSE inputs)

\* lines 349-361: the generated texts the call can end with (the empty text
\* for None): the extractor runs only for a config of type multimodal, and
\* the formatter only on a non-empty extracted text
GeneratedTexts(model_name, outs, text_input) ==
    IF model_name \in DOMAIN model_configs
       /\ model_configs[model_name].type = "multimodal"
    THEN {IF Len(g) > 0 THEN format_conversation_output(g, text_input) ELSE g :
             g \in extract_text_from_multimodal_output(outs)}
    ELSE {<<>>}

\* lines 363-383
MultimodalResult(outs, generated_text) ==
    [isnone |-> FALSE, success |-> TRUE,
     fields |-> {"success", "outputs", "model_name", "timing", "device", "input_shapes"}
                \cup (IF Len(generated_text) > 0 THEN {"generated_text"} ELSE {}),
     generated_text |-> generated_text, outputs |-> outs]

\* infer_multimodal, lines 287-391
infer_multimodal(model_name, image_ok, text_input, text_keys, raises) ==
    /\ UNCHANGED <<models, model_configs, next_handle>>
    /\ IF model_name \notin DOMAIN models
       THEN last_call' = InferCall("infer_multimodal", model_name, text_input, image_ok,
                                   text_keys, FALSE, <<>>, 0, FALSE, NoResult)
       ELSE IF ~image_ok
       THEN last_call' = InferCall("infer_multimodal", model_name, text_input, image_ok,
                                   text_keys, FALSE, <<>>, 0, FALSE, NoResult)
       ELSE LET file == ModelFile(models[model_name].path)
                inputs == BindText(file.inputs, text_keys, BindImage(file.inputs, <<>>))
            IN  IF ~file.named
                THEN \* any_name raises at line 324
                     last_call' = InferCall("infer_multimodal", model_name, text_input,
                                            image_ok, text_keys, TRUE, <<>>, 0, FALSE,
                                            FailureResult)
                ELSE IF raises
                THEN last_call' = InferCall("infer_multimodal", model_name, text_input,
                                            image_ok, text_keys, TRUE, inputs, 1, TRUE,
                                            FailureResult)
                ELSE \E result \in InvokeResults(file) :
                     \E g \in GeneratedTexts(model_name, OutputMap(file, result), text_input) :
                        last_call' = InferCall("infer_multimodal", model_name, text_input,
                                               image_ok, text_keys, TRUE, inputs, 1, FALSE,
                                               MultimodalResult(OutputMap(file, result), g))

-----------------------------------------------------------------------------
(* The engine: any sequence of calls, one at a time.                       *)

EngineInit ==
    /\ models = <<>>
    /\ model_configs = <<>>
    /\ next_handle = 1
    /\ last_call = NoCall

\* the components that take no step while the engine or the extractor runs
TextIdle ==
    /\ text_in = [kind |-> "idle"]
    /\ max_length = 0
    /\ tokenizer = "none"
    /\ tcall = [op |-> "none"]

ImageIdle ==
    /\ image_in = [w |-> 0, h |-> 0]
    /\ target_size = [w |-> 0, h |-> 0]
    /\ canvas = [done |-> FALSE]

BindIdle ==
    /\ input_ports = <<>>
    /\ processed_text = {}
    /\ bound_inputs = [bound |-> FALSE]

BenchIdle == bench = [pc |-> "idle"]

RaceIdle ==
    /\ inference = [pc |-> "idle"]
    /\ unloading = [pc |-> "idle"]
    /\ loading = [pc |-> "idle"]

OutputIdle == ocall = [op |-> "none"]

VoiceIdle ==
    /\ npu_voice = [ready |-> FALSE, compiled |-> FALSE]
    /\ voice_config = [max_response_length |-> 0]
    /\ requests = <<>>

ExtractorIdle ==
    /\ outputs = <<>>
    /\ text_candidates = <<>>
    /\ cand_idx = 0
    /\ attempted = <<>>
    /\ xresult = <<>>
    /\ xpc = "idle"

Init ==
    /\ EngineInit /\ ExtractorIdle
    /\ TextIdle /\ ImageIdle /\ BindIdle /\ BenchIdle /\ RaceIdle /\ VoiceIdle /\ OutputIdle

LoadModel ==
    /\ \E model_name \in Names, model_path \in Paths, model_type \in ModelTypes :
          load_model(model_name, model_path, model_type)
    /\ UNCHANGED <<xvars, pvars>>

UnloadModel ==
    /\ \E model_name \in Names : unload_model(model_name)
    /\ UNCHANGED <<xvars, pvars>>

InferImage ==
    /\ \E model_name \in Names, image_ok \in BOOLEAN, raises \in BOOLEAN :
          infer_image(model_name, image_ok, raises)
    /\ UNCHANGED <<xvars, pvars>>

InferText ==
    /\ \E model_name \in Names, text_input \in Prompts, text_keys \in TextKeySets,
          raises \in BOOLEAN :
          infer_text(model_name, text_input, text_keys, raises)
    /\ UNCHANGED <<xvars, pvars>>

InferMultimodal ==
    /\ \E model_name \in Names, image_ok \in BOOLEAN, text_input \in Prompts,
          text_keys \in TextKeySets, raises \in BOOLEAN :
          infer_multimodal(model_name, image_ok, text_input, text_keys, raises)
    /\ UNCHANGED <<xvars, pvars>>

Next == LoadModel \/ UnloadModel \/ InferImage \/ InferText \/ InferMultimodal

Spec == Init /\ [][Next]_vars

-----------------------------------------------------------------------------
(* The extractor, run on every output map of at most MaxOutputs entries    *)
(* over Keys and Values, one loop pass at a time.                          *)

XInit ==
    /\ EngineInit
    /\ outputs = <<>>
    /\ text_candidates = <<>>
    /\ cand_idx = 0
    /\ attempted = <<>>
    /\ xresult = <<>>
    /\ xpc = "build"
    /\ TextIdle /\ ImageIdle /\ BindIdle /\ BenchIdle /\ RaceIdle /\ VoiceIdle /\ OutputIdle

\* the caller puts one more entry into the output map
XPut ==
    /\ xpc = "build"
    /\ Len(outputs) < MaxOutputs
    /\ \E key \in Keys, value \in Values :
          /\ ~HasKey(outputs, key)
          /\ outputs' = Append(outputs, [key |-> key, value |-> value])
    /\ UNCHANGED <<text_candidates, cand_idx, attempted, xresult, xpc>>
    /\ UNCHANGED <<evars, pvars>>

\* lines 123-148
XScan ==
    /\ xpc = "build"
    /\ text_candidates' = RankedCandidates(outputs)
    /\ cand_idx' = 1
    /\ xpc' = "loop"
    /\ UNCHANGED <<outputs, attempted, xresult>>
    /\ UNCHANGED <<evars, pvars>>

\* lines 150-176: one pass of the loop
XTry ==
    /\ xpc = "loop"
    /\ cand_idx <= Len(text_candidates)
    /\ attempted' = Append(attempted, text_candidates[cand_idx].key)
    /\ \E o \in DecodeCandidate(text_candidates[cand_idx].key,
                                text_candidates[cand_idx].value) :
          IF o.returns
          THEN xresult' = o.text /\ xpc' = "done" /\ UNCHANGED cand_idx
          ELSE cand_idx' = cand_idx + 1 /\ UNCHANGED <<xresult, xpc>>
    /\ UNCHANGED <<outputs, text_candidates>>
    /\ UNCHANGED <<evars, pvars>>

\* line 179
XFail ==
    /\ xpc = "loop"
    /\ cand_idx > Len(text_candidates)
    /\ xresult' = ExtractFailed
    /\ xpc' = "done"
    /\ UNCHANGED <<outputs, text_candidates, cand_idx, attempted>>
    /\ UNCHANGED <<evars, pvars>>

XNext == XPut \/ XScan \/ XTry \/ XFail

SpecExtract == XInit /\ [][XNext]_vars

-----------------------------------------------------------------------------
(* Properties of the extractor, checked under SpecExtract.                 *)

ExactKeys ==
    {"generated_text", "text_output", "caption", "description", "answer", "response",
     "prediction", "output_text", "decoded_text", "text", "content"}

\* the texts one ranked candidate decodes to (the empty text when the loop
\* passes over it)
CandTexts(c) ==
    {IF o.returns THEN o.text ELSE <<>> : o \in DecodeCandidate(c.key, c.value)}

\* the exact-match key of the map that ranks first
TopExactKey(outs) ==
    priority_keys[CHOOSE i \in 1..Len(priority_keys) :
                     /\ HasKey(outs, priority_keys[i])
                     /\ \A j \in 1..(i - 1) : ~HasKey(outs, priority_keys[j])]

\* C1: the candidates are attempted in non-increasing priority (exact-match
\* keys, priority 10, before the other keys containing text, priority 5,
\* before the logit keys, priority 1), every key of the map that qualifies is
\* among them, and when the first-ranked exact-match key holds a non-empty
\* string the extractor returns the cleaned form of that string, whatever
\* lower-priority keys the map holds.
C1_PriorityOrder ==
    xpc \in {"loop", "done"} =>
        /\ \A i, j \in 1..Len(text_candidates) :
              i < j => text_candidates[i].priority >= text_candidates[j].priority
        /\ Len(attempted) <= Len(text_candidates)
        /\ \A i \in 1..Len(attempted) : attempted[i] = text_candidates[i].key
        /\ \A i \in 1..Len(text_candidates) :
              LET c == text_candidates[i]
              IN  /\ c.priority \in {10, 5, 1}
                  /\ c.priority = 10 => c.key \in ExactKeys
                  /\ c.priority = 5 => c.key \notin ExactKeys /\ KeyHasText(c.key)
                  /\ c.priority = 1 => KeyHasLogit(c.key)
        /\ \A e \in 1..Len(outputs) :
              /\ outputs[e].key \in ExactKeys =>
                    \E i \in 1..Len(text_candidates) :
                        text_candidates[i] = Candidate(outputs[e].key, outputs[e].value, 10)
              /\ (outputs[e].key \notin ExactKeys /\ KeyHasText(outputs[e].key)) =>
                    \E i \in 1..Len(text_candidates) :
                        text_candidates[i] = Candidate(outputs[e].key, outputs[e].value, 5)
        /\ ( /\ xpc = "done"
             /\ \E e \in 1..Len(outputs) : outputs[e].key \in ExactKeys
             /\ ValueOf(outputs, TopExactKey(outputs)).kind = "str"
             /\ Len(ValueOf(outputs, TopExactKey(outputs)).s) > 0 )
           => xresult = clean_generated_text(ValueOf(outputs, TopExactKey(outputs)).s)

\* the map {answer: 42, some_logits: [0.1, 5.0, 0.3]} has been extracted to 42.
C1_Witness ==
    /\ xpc = "done"
    /\ Len(outputs) = 2
    /\ HasKey(outputs, "answer") /\ HasKey(outputs, "some_logits")
    /\ ValueOf(outputs, "answer") = StrVal(<<"4", "2">>)
    /\ ValueOf(outputs, "some_logits") = NumListVal(<<1, 50, 3>>)
    /\ xresult = <<"4", "2", ".">>

\* C2: when every candidate ranked before candidate j decodes to the empty
\* text and candidate j decodes to a non-empty text, the extractor returns
\* the cleaned text of candidate j.
C2_FallsThroughEmpty ==
    xpc = "done" =>
        \A j \in 2..Len(text_candidates) :
            ( /\ \A i \in 1..(j - 1) : CandTexts(text_candidates[i]) = {<<>>}
              /\ <<>> \notin CandTexts(text_candidates[j]) )
            => xresult \in CandTexts(text_candidates[j])

\* C3: when the map has a candidate and no candidate decodes to a non-empty
\* text, the extractor returns the failure sentinel; it never returns the
\* empty text.
C3_SentinelWhenNothingDecodes ==
    xpc = "done" =>
        /\ ( /\ Len(text_candidates) >= 1
             /\ \A i \in 1..Len(text_candidates) : CandTexts(text_candidates[i]) = {<<>>} )
           => xresult = ExtractFailed
        /\ xresult # <<>>

\* no key of the map is an exact priority key, contains text, or contains
\* logit with a list or array value
NoCandidateKey(outs) ==
    \A e \in 1..Len(outs) :
        /\ outs[e].key \notin ExactKeys
        /\ ~Contains(LowerStr(KeyChars(outs[e].key)), <<"t", "e", "x", "t">>)
        /\ ~( /\ Contains(LowerStr(KeyChars(outs[e].key)), <<"l", "o", "g", "i", "t">>)
              /\ outs[e].value.kind \in {"list", "ndarray"} )

\* C4: on a map none of whose keys qualifies as a candidate the scan finds no
\* candidate, no value is looked at, and the extractor returns exactly the
\* failure sentinel.
C4_NoCandidateKeyGivesSentinel ==
    (xpc \in {"loop", "done"} /\ NoCandidateKey(outputs)) =>
        /\ text_candidates = <<>>
        /\ attempted = <<>>
        /\ xpc = "done" => xresult = ExtractFailed

\* the map {embedding: [0.1, 5.0, 0.3]} has been extracted to the sentinel
C4_Witness ==
    /\ xpc = "done"
    /\ outputs = <<[key |-> "embedding", value |-> NumListVal(<<1, 50, 3>>)]>>
    /\ xresult = ExtractFailed

-----------------------------------------------------------------------------
(* Properties of the inference entry points, checked under Spec.           *)

IsInferCall == last_call.op \in {"infer_image", "infer_text", "infer_multimodal"}

\* no candidate of the map decodes to a non-empty text
NoDecodableCandidate(outs) ==
    \A i \in 1..Len(RankedCandidates(outs)) :
        CandTexts(RankedCandidates(outs)[i]) = {<<>>}

\* C5: when infer_multimodal has run a model registered with type multimodal,
\* the invocation succeeded and no candidate of the outputs decodes to a
\* non-empty text, the result has success true and its generated_text is the
\* failure sentinel, character for character.
C5_SentinelReachesCaller ==
    ( /\ last_call.op = "infer_multimodal"
      /\ last_call.invocations = 1
      /\ ~last_call.invoke_raised
      /\ last_call.name \in DOMAIN model_configs
      /\ model_configs[last_call.name].type = "multimodal"
      /\ NoDecodableCandidate(last_call.result.outputs) )
    => /\ ~last_call.result.isnone
       /\ last_call.result.success
       /\ "generated_text" \in last_call.result.fields
       /\ last_call.result.generated_text = ExtractFailed

PortsReadable == ModelFile(last_call.handle.path).named

\* no input port of the registered model receives a tensor of the tokenized
\* text in infer_text
NoTextPortMatched ==
    \A i \in 1..Len(ModelFile(last_call.handle.path).inputs) :
        LET input_name == ModelFile(last_call.handle.path).inputs[i]
        IN  /\ input_name \notin last_call.text_keys
            /\ ~( /\ "input_ids" \in last_call.text_keys
                  /\ input_name \in {"input", "input_ids", "inputs"} )

-----------------------------------------------------------------------------
(* Properties of the registry, checked under Spec.                         *)

\* C8: a name maps to one handle, and a successful load_model leaves under
\* its name exactly the handle, type, path and port metadata of that load:
\* the handle is the freshly compiled one, no handle or metadata of an
\* earlier entry of the name remains, the other names keep theirs, and a load
\* on a name already loaded does not change the set of registry entries.
C8_ReloadReplaces ==
    [][ (last_call'.op = "load_model" /\ last_call'.ret) =>
            LET n == last_call'.name
            IN  /\ n \in DOMAIN models' /\ n \in DOMAIN model_configs'
                /\ models'[n] = last_call'.handle
                /\ models'[n].path = last_call'.path
                /\ \A m \in DOMAIN models : models[m].id # models'[n].id
                /\ model_configs'[n].type = last_call'.type
                /\ model_configs'[n].path = last_call'.path
                /\ model_configs'[n].inputs = ModelFile(last_call'.path).inputs
                /\ model_configs'[n].outputs = ModelFile(last_call'.path).outputs
                /\ \A m \in DOMAIN models \ {n} :
                      m \in DOMAIN models' /\ models'[m] = models[m]
                /\ \A m \in DOMAIN model_configs \ {n} :
                      m \in DOMAIN model_configs' /\ model_configs'[m] = model_configs[m]
                /\ DOMAIN models' = DOMAIN models \cup {n}
                /\ DOMAIN model_configs' = DOMAIN model_configs \cup {n}
                /\ last_call'.was_loaded =>
                      Cardinality(DOMAIN models') = Cardinality(DOMAIN models)
      ]_vars

\* a name that was loaded has been loaded again, from another file
C8_Witness ==
    /\ last_call.op = "load_model"
    /\ last_call.ret
    /\ last_call.was_loaded
    /\ last_call.handle.id = 2
    /\ models[last_call.name] = last_call.handle
    /\ model_configs[last_call.name].path = last_call.path

\* C9: unload_model returns true exactly when the name is loaded at the time
\* of the call; after a true return the name is absent from
\* list_loaded_models and get_model_info and every other name keeps its
\* handle and metadata; after a false return the registry is unchanged.
C9_UnloadExactlyWhenLoaded ==
    [][ last_call'.op = "unload_model" =>
            LET n == last_call'.name
            IN  /\ last_call'.ret <=> n \in DOMAIN models
                /\ last_call'.ret =>
                      /\ n \notin DOMAIN models'
                      /\ n \notin DOMAIN model_configs'
                      /\ \A m \in DOMAIN models \ {n} :
                            m \in DOMAIN models' /\ models'[m] = models[m]
                      /\ \A m \in DOMAIN model_configs \ {n} :
                            /\ m \in DOMAIN model_configs'
                            /\ model_configs'[m] = model_configs[m]
                /\ ~last_call'.ret =>
                      models' = models /\ model_configs' = model_configs
      ]_vars

\* C10: a load_model whose file does not exist, or whose compilation returns
\* no handle, returns false and leaves the registry as it was: no entry is
\* added and an entry of the same name keeps its handle and metadata.
C10_FailedLoadLeavesRegistry ==
    [][ ( /\ last_call'.op = "load_model"
          /\ \/ ~ModelFile(last_call'.path).exists
             \/ ~ModelFile(last_call'.path).compiles )
        => /\ ~last_call'.ret
           /\ models' = models
           /\ model_configs' = model_configs
      ]_vars

\* a file that exists and does not compile has been loaded under a name that
\* holds an entry, and the entry is the earlier one
C10_Witness ==
    /\ last_call.op = "load_model"
    /\ last_call.path = "broken.xml"
    /\ ~last_call.ret
    /\ last_call.was_loaded
    /\ last_call.name \in DOMAIN models
    /\ last_call.name \in DOMAIN model_configs
    /\ models[last_call.name].path = "caption.xml"
    /\ model_configs[last_call.name].path = "caption.xml"

-----------------------------------------------------------------------------
(* An inference in flight while unload_model runs: the statements of the   *)
(* two calls interleave.  Every access to self.models and                  *)
(* self.model_configs is one step; the registry is loaded while no call is *)
(* in flight.                                                              *)

InferOps == {"infer_image", "infer_text", "infer_multimodal"}

\* the inference thread at a position of its body
InferenceAt(pc, op, name, text_input, registered, compiled_model, outs) ==
    [pc |-> pc, op |-> op, name |-> name, text_input |-> text_input,
     registered |-> registered, compiled_model |-> compiled_model, outs |-> outs,
     passed |-> TRUE, image_failed |-> FALSE, unbound |-> FALSE,
     result |-> NoResult, raised |-> FALSE]

\* the inference thread after its return statement (raised: an exception
\* left the call instead)
InferenceReturned(thread, result, raised) ==
    [thread EXCEPT !.pc = "returned", !.result = result, !.raised = raised]

\* a KeyError at compiled_model = self.models[model_name]: raised here
\* instead of being caught
HandleMissingEscapes(thread) == InferenceReturned(thread, NoResult, TRUE)

\* lines 155, 226, 316 inside the try of lines 135, 209, 291: a KeyError at
\* compiled_model = self.models[model_name] reaches the except clause
HandleMissing(thread) == InferenceReturned(thread, FailureResult, FALSE)

\* lines 131-133, 205-207, 287-289: the registration check
InferCheck ==
    /\ inference.pc = "idle"
    /\ \E op \in InferOps, model_name \in Names, text_input \in {<<"h", "i">>} :
          /\ inference' =
                IF model_name \in DOMAIN models
                THEN InferenceAt("preprocess", op, model_name, text_input,
                                 models[model_name], NoHandle, <<>>)
                ELSE [InferenceAt("returned", op, model_name, text_input,
                                  NoHandle, NoHandle, <<>>) EXCEPT !.passed = FALSE]
    /\ UNCHANGED <<xvars, evars, tvars, ivars, nvars, bvars, unloading, svars>>

\* lines 142-150, 217-222, 298-312: preprocessing
InferPreprocess ==
    /\ inference.pc = "preprocess"
    /\ \E image_ok \in BOOLEAN :
          /\ inference.op = "infer_text" => image_ok
          /\ inference' =
                IF image_ok
                THEN [inference EXCEPT !.pc = "handle"]
                ELSE InferenceReturned([inference EXCEPT !.image_failed = TRUE],
                                       NoResult, FALSE)
    /\ UNCHANGED <<xvars, evars, tvars, ivars, nvars, bvars, unloading, svars>>

\* lines 155, 226, 316: compiled_model = self.models[model_name]
InferHandle ==
    /\ inference.pc = "handle"
    /\ inference' =
          IF inference.name \in DOMAIN models
          THEN [inference EXCEPT !.pc = "bind", !.compiled_model = models[inference.name]]
          ELSE HandleMissing(inference)
    /\ UNCHANGED <<xvars, evars, tvars, ivars, nvars, bvars, unloading, svars>>

\* lines 158, 229-239, 319-336: the port names are read from the local
\* handle and the inputs bound
InferBind ==
    /\ inference.pc = "bind"
    /\ LET file == ModelFile(inference.compiled_model.path)
       IN  inference' =
              IF ~file.named
              THEN InferenceReturned(inference, FailureResult, FALSE)
              ELSE IF /\ inference.op = "infer_text"
                      /\ \E text_keys \in TextKeySets :
                            DOMAIN BindTextWithFallback(file.inputs, text_keys, <<>>) = {}
              THEN InferenceReturned([inference EXCEPT !.unbound = TRUE], NoResult, FALSE)
              ELSE [inference EXCEPT !.pc = "invoke"]
    /\ UNCHANGED <<xvars, evars, tvars, ivars, nvars, bvars, unloading, svars>>

\* lines 161-170, 242-250, 339-347: the invocation of the local handle
InferInvoke ==
    /\ inference.pc = "invoke"
    /\ LET file == ModelFile(inference.compiled_model.path)
       IN  \E raises \in BOOLEAN :
              IF raises
              THEN inference' = InferenceReturned(inference, FailureResult, FALSE)
              ELSE \E result \in InvokeResults(file) :
                      inference' = [inference EXCEPT !.pc = "collect",
                                                     !.outs = OutputMap(file, result)]
    /\ UNCHANGED <<xvars, evars, tvars, ivars, nvars, bvars, unloading, svars>>

\* lines 172-183, 252-263, 349-383: the result dict; infer_multimodal reads
\* self.model_configs here
InferCollect ==
    /\ inference.pc = "collect"
    /\ \E g \in GeneratedTexts(inference.name, inference.outs, inference.text_input) :
          inference' =
             InferenceReturned(
                 inference,
                 IF inference.op = "infer_image"
                 THEN SuccessResult("input_shape", inference.outs)
                 ELSE IF inference.op = "infer_text"
                 THEN SuccessResult("input_text_length", inference.outs)
                 ELSE MultimodalResult(inference.outs, g),
                 FALSE)
    /\ UNCHANGED <<xvars, evars, tvars, ivars, nvars, bvars, unloading, svars>>

\* the caller has the result; another request may come
InferDone ==
    /\ inference.pc = "returned"
    /\ inference' = [pc |-> "idle"]
    /\ UNCHANGED <<xvars, evars, tvars, ivars, nvars, bvars, unloading, svars>>

\* unload_model, line 98: if model_name in self.models
UnloadCheck ==
    /\ unloading.pc = "idle"
    /\ \E model_name \in Names :
          unloading' = [pc |-> IF model_name \in DOMAIN models
                               THEN "del_models" ELSE "returned",
                        name |-> model_name, ret |-> FALSE]
    /\ UNCHANGED <<xvars, evars, tvars, ivars, nvars, bvars, inference, svars>>

\* line 99: del self.models[model_name]
UnloadDelModels ==
    /\ unloading.pc = "del_models"
    /\ models' = Del(models, unloading.name)
    /\ unloading' = [unloading EXCEPT !.pc = "del_configs"]
    /\ UNCHANGED <<xvars, model_configs, next_handle, last_call,
                   tvars, ivars, nvars, bvars, inference, svars>>

\* lines 100-102 and 107-109: del self.model_configs[model_name]; a KeyError
\* reaches the except clause, which returns False
UnloadDelConfigs ==
    /\ unloading.pc = "del_configs"
    /\ model_configs' = Del(model_configs, unloading.name)
    /\ unloading' = [unloading EXCEPT !.pc = "returned",
                                      !.ret = unloading.name \in DOMAIN model_configs]
    /\ UNCHANGED <<xvars, models, next_handle, last_call,
                   tvars, ivars, nvars, bvars, inference, svars>>

UnloadDone ==
    /\ unloading.pc = "returned"
    /\ unloading' = [pc |-> "idle"]
    /\ UNCHANGED <<xvars, evars, tvars, ivars, nvars, bvars, inference, svars>>

\* the files that compile, and the types that differ at line 352
RacePaths == {"noname.xml", "caption.xml", "embed.xml"}
RaceTypes == {"text", "multimodal"}

\* load_model while no call is in flight
RaceLoad ==
    /\ inference.pc = "idle"
    /\ unloading.pc = "idle"
    /\ \E model_name \in Names, model_path \in RacePaths, model_type \in RaceTypes :
          load_model(model_name, model_path, model_type)
    /\ UNCHANGED <<xvars, pvars>>

RaceNext ==
    \/ RaceLoad
    \/ InferCheck \/ InferPreprocess \/ InferHandle \/ InferBind
    \/ InferInvoke \/ InferCollect \/ InferDone
    \/ UnloadCheck \/ UnloadDelModels \/ UnloadDelConfigs \/ UnloadDone

SpecRace == Init /\ [][RaceNext]_vars

-----------------------------------------------------------------------------
(* TextProcessor (src/text_processor.py): clean_text, the character codec  *)
(* _simple_tokenize, tokenize_text, process_for_inference, decode_tokens.  *)

\* the characters beyond chr(32)..chr(126) that the texts of the model use:
\* a control character that is no whitespace, one that is, and the curly
\* quotation marks
ControlChars == {NL, "\t", "\r", "U+0001", "U+001F"}
CurlyQuotes == {"U+201C", "U+201D", "U+2018", "U+2019"}

\* ord(char) for chr(32)..chr(126)
OrdAscii == [c \in {Ascii[i] : i \in 1..95} |-> 31 + CHOOSE i \in 1..95 : Ascii[i] = c]

\* ord(char)
Ord(c) ==
    CASE c = NL -> 10
      [] c = "\t" -> 9
      [] c = "\r" -> 13
      [] c = "U+0001" -> 1
      [] c = "U+001F" -> 31
      [] c = "U+201C" -> 8220
      [] c = "U+201D" -> 8221
      [] c = "U+2018" -> 8216
      [] c = "U+2019" -> 8217
      [] OTHER -> OrdAscii[c]

\* chr(n)
CharOf(n) ==
    IF 32 <= n /\ n <= 126 THEN Chr(n)
    ELSE CHOOSE c \in ControlChars \cup CurlyQuotes : Ord(c) = n

\* str.replace(pat, rep): left to right, non-overlapping
RECURSIVE ReplaceAll(_, _, _)
ReplaceAll(t, pat, rep) ==
    IF ~Contains(t, pat) THEN t
    ELSE IF SubSeq(t, 1, Len(pat)) = pat
         THEN rep \o ReplaceAll(SubSeq(t, Len(pat) + 1, Len(t)), pat, rep)
         ELSE <<Head(t)>> \o ReplaceAll(Tail(t), pat, rep)

\* re.sub(r'[S]+', c, t): every maximal run of characters of S becomes one c
ReplaceRuns(t, S, c) ==
    KeepIdx([i \in 1..Len(t) |-> IF t[i] \in S THEN c ELSE t[i]],
            {i \in 1..Len(t) : ~(i > 1 /\ t[i] \in S /\ t[i - 1] \in S)}, 1)

\* the characters the regex class \s matches
Whitespace == {" ", NL, "\t", "\r", "U+001F"}

\* line 62 as Python reads it: the first argument of the one replace call is
\* the triple-quoted literal  , "'").replace(  and the second is the apostrophe
Line62Pattern ==
    <<",", " ", "\"", "'", "\"", ")", ".", "r", "e", "p", "l", "a", "c", "e", "(">>

\* clean_text on a string, lines 52-67
CleanString(t) ==
    LET stripped == Strip(t)
        newlines == ReplaceRuns(stripped, {NL}, " ")
        spaces == ReplaceRuns(newlines, Whitespace, " ")
        line61 == ReplaceAll(ReplaceAll(spaces, <<"\"">>, <<"\"">>), <<"\"">>, <<"\"">>)
        line62 == ReplaceAll(line61, Line62Pattern, <<"'">>)
        printable == KeepIdx(line62, {i \in 1..Len(line62) : Ord(line62[i]) >= 32}, 1)
    IN  Strip(printable)

\* clean_text, lines 45-71: a value that is no string makes text.strip()
\* raise, and the except clause returns the value as it came
clean_text(v) == IF v.kind = "str" THEN StrVal(CleanString(v.s)) ELSE v

\* the dict of arrays tokenize_text returns: the keys, and the rows of
\* input_ids and attention_mask (each array has shape (1, max_length))
Tokens(keys, input_ids, attention_mask) ==
    [keys |-> keys, input_ids |-> input_ids, attention_mask |-> attention_mask]

\* lines 136-139 and 247-250: np.zeros((1, self.max_length))
ZeroTokens(L) ==
    Tokens({"input_ids", "attention_mask"}, [i \in 1..L |-> 0], [i \in 1..L |-> 0])

\* a codec that does not pad
SimpleTokenizeUnpadded(v, L) ==
    LET cleaned == clean_text(v)
    IN  IF cleaned.kind # "str" THEN ZeroTokens(L)
        ELSE LET cut == SubSeq(cleaned.s, 1, IF Len(cleaned.s) < L THEN Len(cleaned.s) ELSE L)
             IN  Tokens({"input_ids", "attention_mask"},
                        [i \in 1..Len(cut) |-> Ord(cut[i])], [i \in 1..Len(cut) |-> 1])

\* _simple_tokenize, lines 113-139; slicing a value that is no string raises
\* and the except clause returns the zero arrays
simple_tokenize(v, L) ==
    LET cleaned == clean_text(v)
    IN  IF cleaned.kind # "str" THEN ZeroTokens(L)
        ELSE LET cut == SubSeq(cleaned.s, 1, IF Len(cleaned.s) < L THEN Len(cleaned.s) ELSE L)
                 char_ids == [i \in 1..Len(cut) |-> Ord(cut[i])]
                 padded == IF Len(char_ids) < L
                           THEN char_ids \o [i \in 1..(L - Len(char_ids)) |-> 0]
                           ELSE char_ids
             IN  Tokens({"input_ids", "attention_mask"}, padded,
                        [i \in 1..Len(padded) |-> IF padded[i] > 0 THEN 1 ELSE 0])

\* what the tokenizer collaborator returns for padding='max_length',
\* truncation=True, return_tensors='np': arrays of shape (1, max_length);
\* here a [CLS] id followed by padding, or ids in every position
TokenizerEncodings(L) ==
    {Tokens({"input_ids", "attention_mask", "token_type_ids"},
            [i \in 1..L |-> IF i = 1 THEN 101 ELSE 0],
            [i \in 1..L |-> IF i = 1 THEN 1 ELSE 0]),
     Tokens({"input_ids", "attention_mask"},
            [i \in 1..L |-> 100 + i], [i \in 1..L |-> 1])}

\* a tokenize_text without the fallback to the codec: the exception of the
\* tokenizer reaches process_for_inference, which returns the zero arrays
TokenizeTextNoFallback(v, L, tok) ==
    IF tok = "none" THEN {simple_tokenize(v, L)}
    ELSE IF tok = "raises" \/ clean_text(v).kind # "str" THEN {ZeroTokens(L)}
    ELSE TokenizerEncodings(L)

\* tokenize_text, lines 73-111: the set of results.  tok is the tokenizer:
\* none (self.tokenizer is None), ok, or raises; a tokenizer given a value
\* that is no string raises as well
tokenize_text(v, L, tok) ==
    IF tok = "none" THEN {simple_tokenize(v, L)}
    ELSE IF tok = "raises" \/ clean_text(v).kind # "str" THEN {simple_tokenize(v, L)}
    ELSE TokenizerEncodings(L)

\* process_for_inference, lines 230-250
process_for_inference(v, L, tok, return_features) ==
    {[tokens EXCEPT !.keys = IF return_features THEN @ \cup {"text_features"} ELSE @] :
        tokens \in tokenize_text(v, L, tok)}

\* a decoder that also drops the space
DecodeTokensAboveSpace(token_ids) ==
    LET positive == {i \in 1..Len(token_ids) : token_ids[i] > 32}
    IN  KeepIdx([i \in 1..Len(token_ids) |->
                    IF i \in positive THEN CharOf(token_ids[i]) ELSE ""],
                positive, 1)

\* decode_tokens without a tokenizer, lines 183-190
decode_tokens(token_ids) ==
    LET positive == {i \in 1..Len(token_ids) : token_ids[i] > 0}
    IN  KeepIdx([i \in 1..Len(token_ids) |->
                    IF i \in positive THEN CharOf(token_ids[i]) ELSE ""],
                positive, 1)

\* the texts: every text of at most MaxTextLen characters over a letter, the
\* space and a control character, and some examples with other characters
MaxTextLen == 5
MaxLength == 3

TextAlphabet == {"a", " ", "U+0001"}

ExampleTexts ==
    {<<"H", "i">>,
     <<"U+201C", "H", "i", "U+201D">>,
     <<"H", NL, NL, "i", "\t">>,
     <<"a", "U+001F", "b">>,
     <<"U+2018", "x", "U+2019", "\"">>,
     <<"p">> \o Line62Pattern \o <<"q">>,
     <<",", " ", "\"">> \o Line62Pattern \o <<"\"", ")", ".", "r", "e", "p", "l", "a", "c", "e", "(">>}

Texts == UNION {SeqsOf(TextAlphabet, n) : n \in 0..MaxTextLen} \cup ExampleTexts

\* the argument of a call: a string, or a value that is no string
TextValues == {StrVal(t) : t \in Texts} \cup {OtherVal}

NoTokens == Tokens({}, <<>>, <<>>)

\* the record of a TextProcessor call: the operation, its argument, and
\* what it returned (out: a cleaned value; tokens: a token dict; decoded and
\* decoded_out: the texts of the two fallback decoders)
TextCall(op, arg, again, out, tokens, decoded, decoded_out) ==
    [op |-> op, arg |-> arg, again |-> again, out |-> out, tokens |-> tokens,
     decoded |-> decoded, decoded_out |-> decoded_out]

TextInit ==
    /\ EngineInit /\ ExtractorIdle
    /\ ImageIdle /\ BindIdle /\ BenchIdle /\ RaceIdle /\ VoiceIdle /\ OutputIdle
    /\ text_in \in TextValues
    /\ max_length \in 1..MaxLength
    /\ tokenizer \in {"none", "ok", "raises"}
    /\ tcall = TextCall("none", OtherVal, FALSE, OtherVal, NoTokens, <<>>, <<>>)

\* clean_text(text)
CleanText ==
    /\ tcall' = TextCall("clean_text", text_in, FALSE, clean_text(text_in),
                         NoTokens, <<>>, <<>>)
    /\ UNCHANGED <<text_in, max_length, tokenizer>>
    /\ UNCHANGED <<xvars, evars, ivars, nvars, bvars, rvars, svars>>

\* clean_text applied to what clean_text returned
CleanAgain ==
    /\ tcall.op = "clean_text"
    /\ ~tcall.again
    /\ tcall' = TextCall("clean_text", tcall.out, TRUE, clean_text(tcall.out),
                         NoTokens, <<>>, <<>>)
    /\ UNCHANGED <<text_in, max_length, tokenizer>>
    /\ UNCHANGED <<xvars, evars, ivars, nvars, bvars, rvars, svars>>

\* _simple_tokenize(text)
SimpleTokenize ==
    /\ tcall' = TextCall("simple_tokenize", text_in, FALSE, OtherVal,
                         simple_tokenize(text_in, max_length), <<>>, <<>>)
    /\ UNCHANGED <<text_in, max_length, tokenizer>>
    /\ UNCHANGED <<xvars, evars, ivars, nvars, bvars, rvars, svars>>

\* the input_ids of _simple_tokenize given to the two fallback decoders:
\* TextProcessor.decode_tokens and TextOutputProcessor.decode_token_ids
DecodeTokens ==
    /\ tcall.op = "simple_tokenize"
    /\ tcall' = TextCall("decode_tokens", tcall.arg, FALSE, OtherVal, tcall.tokens,
                         decode_tokens(tcall.tokens.input_ids),
                         decode_token_ids([i \in 1..Len(tcall.tokens.input_ids) |->
                                              10 * tcall.tokens.input_ids[i]]))
    /\ UNCHANGED <<text_in, max_length, tokenizer>>
    /\ UNCHANGED <<xvars, evars, ivars, nvars, bvars, rvars, svars>>

\* process_for_inference(text, return_features)
ProcessForInference ==
    /\ \E return_features \in BOOLEAN :
       \E tokens \in process_for_inference(text_in, max_length, tokenizer, return_features) :
          tcall' = TextCall("process_for_inference", text_in, return_features, OtherVal,
                            tokens, <<>>, <<>>)
    /\ UNCHANGED <<text_in, max_length, tokenizer>>
    /\ UNCHANGED <<xvars, evars, ivars, nvars, bvars, rvars, svars>>

TextNext == CleanText \/ CleanAgain \/ SimpleTokenize \/ DecodeTokens \/ ProcessForInference

SpecText == TextInit /\ [][TextNext]_vars

-----------------------------------------------------------------------------
(* Properties of the text processor, checked under SpecText.               *)

\* C12: clean_text is idempotent: cleaning a cleaned text changes nothing.
C12_CleanIdempotent ==
    (tcall.op = "clean_text" /\ tcall.again) => tcall.out = tcall.arg

\* C13: the result of clean_text on a text holds no curly quotation mark and
\* no character with a code point below 32.
C13_NoCurlyNoControl ==
    (tcall.op = "clean_text" /\ tcall.arg.kind = "str") =>
        /\ tcall.out.kind = "str"
        /\ \A i \in 1..Len(tcall.out.s) :
              /\ tcall.out.s[i] \notin CurlyQuotes
              /\ Ord(tcall.out.s[i]) >= 32

\* the number of characters of the cleaned text that fit into L positions
Encoded(t, L) == IF Len(CleanString(t)) < L THEN Len(CleanString(t)) ELSE L

\* C14: _simple_tokenize returns input_ids and attention_mask of length
\* exactly max_length; input_ids holds the code points of the first
\* min(len, max_length) characters of the cleaned text and then zeros, and
\* attention_mask is 1 exactly at the positions of those characters.
C14_FixedLengthCodec ==
    tcall.op = "simple_tokenize" =>
        /\ Len(tcall.tokens.input_ids) = max_length
        /\ Len(tcall.tokens.attention_mask) = max_length
        /\ tcall.tokens.keys = {"input_ids", "attention_mask"}
        /\ tcall.arg.kind = "str" =>
              \A i \in 1..max_length :
                  /\ i <= Encoded(tcall.arg.s, max_length) =>
                        /\ tcall.tokens.input_ids[i] = Ord(CleanString(tcall.arg.s)[i])
                        /\ tcall.tokens.attention_mask[i] = 1
                  /\ i > Encoded(tcall.arg.s, max_length) =>
                        /\ tcall.tokens.input_ids[i] = 0
                        /\ tcall.tokens.attention_mask[i] = 0

\* a text of five characters has been cut to max_length 3
C14_Witness ==
    /\ tcall.op = "simple_tokenize"
    /\ max_length = 3
    /\ tcall.arg = StrVal(<<"a", " ", "a", "a", "a">>)
    /\ tcall.tokens.input_ids = <<97, 32, 97>>
    /\ tcall.tokens.attention_mask = <<1, 1, 1>>

\* every character of the text is one of chr(32)..chr(126)
PrintableAscii(t) == \A i \in 1..Len(t) : t[i] \in DOMAIN OrdAscii

\* C15: for a text of printable ASCII characters whose cleaned form has at
\* most max_length characters, both fallback decoders return exactly the
\* cleaned text from the input_ids of _simple_tokenize.
C15_CodecRoundTrip ==
    ( /\ tcall.op = "decode_tokens"
      /\ tcall.arg.kind = "str"
      /\ PrintableAscii(tcall.arg.s)
      /\ Len(CleanString(tcall.arg.s)) <= max_length )
    => /\ tcall.decoded = CleanString(tcall.arg.s)
       /\ tcall.decoded_out = CleanString(tcall.arg.s)

\* the text a, space, a, space has been cleaned to three characters, encoded
\* and decoded again
C15_Witness ==
    /\ tcall.op = "decode_tokens"
    /\ max_length = 3
    /\ tcall.arg = StrVal(<<"a", " ", "a", " ">>)
    /\ tcall.tokens.input_ids = <<97, 32, 97>>
    /\ tcall.decoded = <<"a", " ", "a">>
    /\ tcall.decoded_out = <<"a", " ", "a">>

\* C16: process_for_inference returns input_ids of length max_length in every
\* case; without a tokenizer, or with one that raises, the result is the
\* character-codec encoding of the text; when the codec fails (the value is
\* no string) input_ids and attention_mask are all zero.
C16_AlwaysTokens ==
    tcall.op = "process_for_inference" =>
        /\ "input_ids" \in tcall.tokens.keys
        /\ Len(tcall.tokens.input_ids) = max_length
        /\ (tokenizer \in {"none", "raises"} /\ tcall.arg.kind = "str") =>
              /\ "attention_mask" \in tcall.tokens.keys
              /\ \A i \in 1..max_length :
                    /\ i <= Encoded(tcall.arg.s, max_length) =>
                          /\ tcall.tokens.input_ids[i] = Ord(CleanString(tcall.arg.s)[i])
                          /\ tcall.tokens.attention_mask[i] = 1
                    /\ i > Encoded(tcall.arg.s, max_length) =>
                          /\ tcall.tokens.input_ids[i] = 0
                          /\ tcall.tokens.attention_mask[i] = 0
        /\ tcall.arg.kind # "str" =>
              /\ tcall.tokens.input_ids = [i \in 1..max_length |-> 0]
              /\ tcall.tokens.attention_mask = [i \in 1..max_length |-> 0]

\* the tokenizer raised on the text Hi and the codec encoded it
C16_Witness ==
    /\ tcall.op = "process_for_inference"
    /\ tokenizer = "raises"
    /\ max_length = 3
    /\ tcall.arg = StrVal(<<"H", "i">>)
    /\ tcall.tokens.input_ids = <<72, 105, 0>>
    /\ tcall.tokens.attention_mask = <<1, 1, 0>>

-----------------------------------------------------------------------------
(* The image processor (image_processor.py): the geometry of                *)
(* resize_maintain_aspect_ratio.  An image is its width and height in       *)
(* pixels with three channels, as load_image_from_bytes and                 *)
(* load_image_from_file produce it; target_size is (width, height).  The    *)
(* result is described by the size of the canvas and by the rectangle of    *)
(* the canvas that holds the content of the source.                         *)

MaxSide == 6
MaxTarget == 5

\* the sizes of the worked examples: a wide source, and a source whose
\* width times the rounded quotient 1 / 49 falls below 1
ExampleSizes == { <<400, 100, 224>>, <<100, 400, 224>>, <<49, 1, 1>> }

\* int(side * scale) where scale is the float quotient num / den.  The
\* quotient is rounded, so the product of an exact integer value may fall
\* just below that integer and int() then truncates to one less (49 * (1 / 49)
\* is 0.9999999999999999); a product that is not an integer exactly is
\* further from the next integers than any rounding error.  A quotient by
\* a power of two is exact.
ExactDivisors == {1, 2, 4, 8, 16, 32, 64, 128, 256, 512}

ScaledInt(side, num, den) ==
    LET q == (side * num) \div den
    IN  IF (side * num) % den = 0 /\ den \notin ExactDivisors
        THEN {q, q - 1}
        ELSE {q}

\* scale = min(target_w / w, target_h / h) as the pair numerator, denominator
Scale(w, h, target_w, target_h) ==
    IF target_w * h <= target_h * w THEN <<target_w, w>> ELSE <<target_h, h>>

\* the offset of the content on one axis, placed at the top left corner
OffsetTopLeft(target, new) == 0

\* y_offset = (target_h - new_h) // 2, x_offset = (target_w - new_w) // 2
Offset(target, new) == (target - new) \div 2

Canvas(fallback, canvas_w, canvas_h, new_w, new_h, x_offset, y_offset) ==
    [done |-> TRUE, fallback |-> fallback,
     canvas_w |-> canvas_w, canvas_h |-> canvas_h,
     new_w |-> new_w, new_h |-> new_h,
     x_offset |-> x_offset, y_offset |-> y_offset]

\* the except branch: cv2.resize(image, target_size) stretches the source
\* over the whole canvas
ResizeFallback(target_w, target_h) ==
    Canvas(TRUE, target_w, target_h, target_w, target_h, 0, 0)

\* resize_maintain_aspect_ratio(image, target_size): the set of results over
\* the roundings of the scale.  cv2.resize raises for an empty size, which
\* the except branch turns into the stretched resize.
resize_maintain_aspect_ratio(w, h, target_w, target_h) ==
    LET scale == Scale(w, h, target_w, target_h)
    IN  { IF new_w = 0 \/ new_h = 0
          THEN ResizeFallback(target_w, target_h)
          ELSE Canvas(FALSE, target_w, target_h, new_w, new_h,
                      Offset(target_w, new_w), Offset(target_h, new_h)) :
          new_w \in ScaledInt(w, scale[1], scale[2]),
          new_h \in ScaledInt(h, scale[1], scale[2]) }

ImageInit ==
    /\ EngineInit /\ ExtractorIdle
    /\ TextIdle /\ BindIdle /\ BenchIdle /\ RaceIdle /\ VoiceIdle /\ OutputIdle
    /\ \/ /\ image_in \in [w : 1..MaxSide, h : 1..MaxSide]
          /\ target_size \in [w : 1..MaxTarget, h : 1..MaxTarget]
       \/ \E e \in ExampleSizes :
             /\ image_in = [w |-> e[1], h |-> e[2]]
             /\ target_size = [w |-> e[3], h |-> e[3]]
    /\ canvas = [done |-> FALSE]

\* resize_maintain_aspect_ratio(image, self.target_size)
ResizeMaintainAspectRatio ==
    /\ ~canvas.done
    /\ canvas' \in resize_maintain_aspect_ratio(image_in.w, image_in.h,
                                                target_size.w, target_size.h)
    /\ UNCHANGED <<image_in, target_size>>
    /\ UNCHANGED <<xvars, evars, tvars, nvars, bvars, rvars, svars>>

ImageNext == ResizeMaintainAspectRatio

SpecImage == ImageInit /\ [][ImageNext]_vars

-----------------------------------------------------------------------------
(* Properties of the image processor, checked under SpecImage.             *)

\* the padding on the two opposite sides of one axis differs by at most one
Centred(target, new, offset) ==
    LET before == offset
        after == target - new - offset
    IN  /\ after >= 0
        /\ before - after \in {-1, 0, 1}

\* C17: for a source of at least one pixel a side and a square target (T, T),
\* the canvas is exactly T by T, the scaled content fits inside it (scaled
\* width and height at most T, offsets not negative) and is centred: the
\* padding on the two opposite sides of each axis differs by at most one pixel.
C17_FitsAndCentred ==
    (canvas.done /\ target_size.w = target_size.h) =>
        LET T == target_size.w
        IN  /\ canvas.canvas_w = T /\ canvas.canvas_h = T
            /\ canvas.new_w <= T /\ canvas.new_h <= T
            /\ canvas.x_offset >= 0 /\ canvas.y_offset >= 0
            /\ Centred(T, canvas.new_w, canvas.x_offset)
            /\ Centred(T, canvas.new_h, canvas.y_offset)

\* a 400 by 100 source has been placed on a 224 by 224 canvas: the content is
\* 224 by 56 with 84 rows of padding above and below
C17_Witness ==
    /\ canvas.done /\ ~canvas.fallback
    /\ image_in = [w |-> 400, h |-> 100]
    /\ target_size = [w |-> 224, h |-> 224]
    /\ canvas.new_w = 224 /\ canvas.new_h = 56
    /\ canvas.x_offset = 0 /\ canvas.y_offset = 84

-----------------------------------------------------------------------------
(* NPUInferenceEngine.benchmark_model.  The environment of a call: the      *)
(* duration the clock measures around each invocation of the compiled       *)
(* model, and the invocation that raises, if one does.  The call is         *)
(* recorded with the log of its invocations in the order they were made.    *)

MaxIterations == 3

\* range(3) at line 418
warmup_iterations == 3

\* end_time - start_time, in clock ticks; a tick of 0 is a call faster than
\* the resolution of time.time()
Durations == {0, 1}

BenchPaths == {"noname.xml", "caption.xml"}

RECURSIVE SeqSum(_)
SeqSum(q) == IF Len(q) = 0 THEN 0 ELSE Head(q) + SeqSum(Tail(q))

SeqMin(q) == CHOOSE x \in {q[i] : i \in 1..Len(q)} : \A i \in 1..Len(q) : x <= q[i]
SeqMax(q) == CHOOSE x \in {q[i] : i \in 1..Len(q)} : \A i \in 1..Len(q) : x >= q[i]

SeqSquares(q) == [i \in 1..Len(q) |-> q[i] * q[i]]

\* np.mean(times), as the fraction sum / count
Mean(times) == [num |-> SeqSum(times), den |-> Len(times)]

\* np.std(times), as the fraction whose square root it is
Std(times) ==
    [num |-> Len(times) * SeqSum(SeqSquares(times)) - SeqSum(times) * SeqSum(times),
     den |-> Len(times) * Len(times)]

\* 1.0 / mean_time: numpy returns inf for a mean of 0.0
Fps(times) ==
    IF SeqSum(times) = 0 THEN [inf |-> TRUE, num |-> 0, den |-> 1]
    ELSE [inf |-> FALSE, num |-> Len(times), den |-> SeqSum(times)]

NoReport ==
    [isnone |-> TRUE, model_name |-> None, model_type |-> None, iterations |-> 0,
     mean_time |-> Mean(<<>>), std_time |-> Std(<<>>), min_time |-> 0, max_time |-> 0,
     fps |-> Fps(<<>>), input_shapes |-> <<>>]

\* lines 430-449
Report(model_name, model_config, num_iterations, times) ==
    [isnone |-> FALSE, model_name |-> model_name, model_type |-> model_config.type,
     iterations |-> num_iterations,
     mean_time |-> Mean(times), std_time |-> Std(times),
     min_time |-> SeqMin(times), max_time |-> SeqMax(times),
     fps |-> Fps(times), input_shapes |-> model_config.inputs]

\* one call of compiled_model(dummy_inputs)
Invocation(phase, duration, raised) ==
    [phase |-> phase, duration |-> duration, raised |-> raised]

\* the invocations of a call that return: all of them, or those before the
\* one that raises (raise_at; 0: none raises)
Returning(num_iterations, raise_at) ==
    IF raise_at = 0 THEN warmup_iterations + num_iterations ELSE raise_at - 1

\* lines 418-419: the warm-up loop; d[i] is the duration of the i-th
\* invocation of the call; an invocation that raises has none
WarmUp(d, raise_at) ==
    LET made == IF raise_at \in 1..warmup_iterations THEN raise_at ELSE warmup_iterations
    IN  [i \in 1..made |->
            IF i = raise_at THEN Invocation("warmup", 0, TRUE)
            ELSE Invocation("warmup", d[i], FALSE)]

\* lines 423-427: the timed loop, entered when the warm-up loop has ended
TimedLoop(num_iterations, d, raise_at) ==
    LET last == warmup_iterations + num_iterations
        made == IF raise_at \in (warmup_iterations + 1)..last
                THEN raise_at - warmup_iterations
                ELSE num_iterations
    IN  [i \in 1..made |->
            IF warmup_iterations + i = raise_at THEN Invocation("timed", 0, TRUE)
            ELSE Invocation("timed", d[warmup_iterations + i], FALSE)]

\* a sample list that starts with the warm-up durations
SampleListWithWarmup(timed, warm) ==
    [i \in 1..Len(SelectSeq(warm \o timed, LAMBDA c : ~c.raised)) |->
        SelectSeq(warm \o timed, LAMBDA c : ~c.raised)[i].duration]

\* line 427: times.append(end_time - start_time), reached by the timed
\* invocations that returned
SampleList(timed, warm) ==
    [i \in 1..Len(SelectSeq(timed, LAMBDA c : ~c.raised)) |->
        SelectSeq(timed, LAMBDA c : ~c.raised)[i].duration]

NoBench == [pc |-> "idle"]

BenchReturn(model_name, num_iterations, invocations, times, report) ==
    [pc |-> "returned", model_name |-> model_name, num_iterations |-> num_iterations,
     invocations |-> invocations, times |-> times, report |-> report]

\* benchmark_model(model_name, input_type, num_iterations), lines 398-453
benchmark_model(model_name, num_iterations, d, raise_at) ==
    IF model_name \notin DOMAIN models
    THEN BenchReturn(model_name, num_iterations, <<>>, <<>>, NoReport)
    ELSE IF model_name \notin DOMAIN model_configs
    THEN \* KeyError at line 404
         BenchReturn(model_name, num_iterations, <<>>, <<>>, NoReport)
    ELSE IF ~ModelFile(models[model_name].path).named
    THEN \* any_name raises at line 408
         BenchReturn(model_name, num_iterations, <<>>, <<>>, NoReport)
    ELSE LET warm == WarmUp(d, raise_at)
             warm_raised == raise_at \in 1..warmup_iterations
             timed == IF warm_raised THEN <<>> ELSE TimedLoop(num_iterations, d, raise_at)
             times == SampleList(timed, warm)
             raised == raise_at \in 1..(warmup_iterations + num_iterations)
         IN  IF raised \/ Len(times) = 0
             THEN \* the invocation raised, or np.min raises on an empty list
                  BenchReturn(model_name, num_iterations, warm \o timed, times, NoReport)
             ELSE BenchReturn(model_name, num_iterations, warm \o timed, times,
                              Report(model_name, model_configs[model_name],
                                     num_iterations, times))

\* load_model of the models the benchmark runs on
BenchLoad ==
    /\ \E model_name \in Names, model_path \in BenchPaths :
          load_model(model_name, model_path, "multimodal")
    /\ UNCHANGED <<xvars, pvars>>

\* benchmark_model changes nothing in the engine: one call in a behaviour
\* reaches every record a call can leave
BenchmarkModel ==
    /\ bench.pc = "idle"
    /\ \E model_name \in Names, num_iterations \in 0..MaxIterations :
       \E raise_at \in 0..(warmup_iterations + num_iterations) :
       \E d \in [1..Returning(num_iterations, raise_at) -> Durations] :
          bench' = benchmark_model(model_name, num_iterations, d, raise_at)
    /\ UNCHANGED <<xvars, evars, tvars, ivars, nvars, rvars, svars>>

BenchNext == BenchLoad \/ BenchmarkModel

SpecBench == Init /\ [][BenchNext]_vars

-----------------------------------------------------------------------------
(* Properties of benchmark_model, checked under SpecBench.                 *)

\* the durations of the timed invocations of a log that returned, in order
TimedDurations(invocations) ==
    LET kept == SelectSeq(invocations, LAMBDA c : c.phase = "timed" /\ ~c.raised)
    IN  [i \in 1..Len(kept) |-> kept[i].duration]

\* C18: for num_iterations N >= 1, every warm-up invocation precedes every
\* timed one and the sample list holds the durations of the timed
\* invocations only, never a warm-up duration; a benchmark that reports has
\* invoked the compiled model exactly 3 + N times, 3 warm-ups first, and its
\* mean, min, max and fps are computed over exactly the N timed durations.
C18_WarmupExcluded ==
    (bench.pc = "returned" /\ bench.num_iterations >= 1) =>
        LET inv == bench.invocations
            N == bench.num_iterations
            sample == TimedDurations(inv)
        IN  /\ \A i, j \in 1..Len(inv) :
                  (inv[i].phase = "warmup" /\ inv[j].phase = "timed") => i < j
            /\ bench.times = sample
            /\ ~bench.report.isnone =>
                  /\ Len(inv) = 3 + N
                  /\ \A i \in 1..Len(inv) : inv[i].phase = "warmup" <=> i <= 3
                  /\ Len(sample) = N
                  /\ bench.report.iterations = N
                  /\ bench.report.mean_time = Mean(sample)
                  /\ bench.report.min_time = SeqMin(sample)
                  /\ bench.report.max_time = SeqMax(sample)
                  /\ bench.report.fps = Fps(sample)

\* a benchmark of two iterations has reported: the three warm-ups took one
\* tick each, the timed invocations 0 and 1, and the mean is 1/2
C18_Witness ==
    /\ bench.pc = "returned"
    /\ bench.num_iterations = 2
    /\ ~bench.report.isnone
    /\ Len(bench.invocations) = 5
    /\ \A i \in 1..3 : bench.invocations[i].duration = 1
    /\ bench.times = <<0, 1>>
    /\ bench.report.mean_time = [num |-> 1, den |-> 2]
    /\ bench.report.min_time = 0
    /\ bench.report.max_time = 1

-----------------------------------------------------------------------------
(* The input binding of infer_text and infer_multimodal on its own: the     *)
(* declared input ports of a compiled model by name in declaration order    *)
(* (the names of one model are distinct), the keys of the tokenized text,   *)
(* and the input map the entry point builds.  A tensor is named by the key  *)
(* it was taken from; the processed image is IMAGE.                         *)

MaxPorts == 3

BindPortNames ==
    {"pixel_values", "Input_Image", "input_ids", "attention_mask", "token_type_ids",
     "input", "inputs", "x"}

\* the keys of process_for_inference's result: the tokenizer may add
\* token_type_ids, return_features adds text_features
BindTextKeySets ==
    { {"input_ids", "attention_mask"},
      {"input_ids", "attention_mask", "token_type_ids"},
      {"input_ids", "attention_mask", "text_features"} }

\* the sequences of at most n distinct elements of S
RECURSIVE DistinctSeqs(_, _)
DistinctSeqs(S, n) ==
    IF n = 0 THEN {<<>>}
    ELSE LET shorter == DistinctSeqs(S, n - 1)
             fresh(q) == S \ {q[i] : i \in 1..Len(q)}
         IN  shorter \cup UNION
             {{Append(q, e) : e \in fresh(q)} : q \in {r \in shorter : Len(r) = n - 1}}

NoBinding == [bound |-> FALSE]

Binding(op, image, inputs, returns_none) ==
    [bound |-> TRUE, op |-> op, image |-> image, inputs |-> inputs,
     returns_none |-> returns_none]

BindInit ==
    /\ EngineInit /\ ExtractorIdle
    /\ TextIdle /\ ImageIdle /\ BenchIdle /\ RaceIdle /\ VoiceIdle /\ OutputIdle
    /\ input_ports \in DistinctSeqs(BindPortNames, MaxPorts)
    /\ processed_text \in BindTextKeySets
    /\ bound_inputs = NoBinding

\* infer_text, lines 229-239
BindInferText ==
    /\ LET inputs == BindTextWithFallback(input_ports, processed_text, <<>>)
       IN  bound_inputs' = Binding("infer_text", <<>>, inputs, DOMAIN inputs = {})
    /\ UNCHANGED <<input_ports, processed_text>>
    /\ UNCHANGED <<xvars, evars, tvars, ivars, bvars, rvars, svars>>

\* infer_multimodal, lines 318-336
BindInferMultimodal ==
    /\ LET image == BindImage(input_ports, <<>>)
           inputs == BindText(input_ports, processed_text, image)
       IN  bound_inputs' = Binding("infer_multimodal", image, inputs, FALSE)
    /\ UNCHANGED <<input_ports, processed_text>>
    /\ UNCHANGED <<xvars, evars, tvars, ivars, bvars, rvars, svars>>

BindNext == BindInferText \/ BindInferMultimodal

SpecBind == BindInit /\ [][BindNext]_vars

-----------------------------------------------------------------------------
(* Properties of the input binding, checked under SpecBind.                *)

\* the ports that hold the image tensor in an input map
ImageHolders(inputs) == {n \in DOMAIN inputs : inputs[n] = "IMAGE"}

\* the positions of the ports whose lower-cased name contains one of the
\* image names
ImageMatches(ports) == {i \in 1..Len(ports) : IsImagePort(ports[i])}

\* C19: in infer_multimodal the image tensor is held by exactly one port, the
\* first in declaration order whose lower-cased name contains image, images,
\* pixel_values or input_image; no later matching port holds it, no port
\* holds it when none matches, and the text binding leaves the port that
\* holds the image tensor as it was.
C19_ImageOnFirstMatch ==
    (bound_inputs.bound /\ bound_inputs.op = "infer_multimodal") =>
        LET matches == ImageMatches(input_ports)
            first == CHOOSE i \in matches : \A j \in matches : i <= j
        IN  /\ matches = {} => ImageHolders(bound_inputs.inputs) = {}
            /\ matches # {} => ImageHolders(bound_inputs.inputs) = {input_ports[first]}
            /\ ImageHolders(bound_inputs.image) = ImageHolders(bound_inputs.inputs)

\* a model declares input_ids, Input_Image, pixel_values in this order: the
\* image went to Input_Image, pixel_values got nothing, input_ids its tensor
C19_Witness ==
    /\ bound_inputs.bound /\ bound_inputs.op = "infer_multimodal"
    /\ input_ports = <<"input_ids", "Input_Image", "pixel_values">>
    /\ DOMAIN bound_inputs.inputs = {"input_ids", "Input_Image"}
    /\ bound_inputs.inputs["Input_Image"] = "IMAGE"
    /\ bound_inputs.inputs["input_ids"] = "input_ids"

\* C20: in infer_text and in infer_multimodal alike, an input port whose name
\* is a key of the tokenized text holds that tensor, and an input port named
\* input, input_ids or inputs holds the input_ids tensor when input_ids is
\* present.
C20_SameTextRule ==
    bound_inputs.bound =>
        \A i \in 1..Len(input_ports) :
            LET input_name == input_ports[i]
            IN  /\ input_name \in processed_text =>
                      /\ input_name \in DOMAIN bound_inputs.inputs
                      /\ bound_inputs.inputs[input_name] = input_name
                /\ (input_name \in {"input", "input_ids", "inputs"}
                    /\ "input_ids" \in processed_text) =>
                      /\ input_name \in DOMAIN bound_inputs.inputs
                      /\ bound_inputs.inputs[input_name] = "input_ids"

-----------------------------------------------------------------------------
(* The voice server: ProductionNPUVoice (production_npu_voice.py) behind    *)
(* the endpoints /voice/infer and /voice/quick (main_npu.py).  The         *)
(* handlers are coroutines of one event loop: a handler runs without        *)
(* interruption up to the point where it suspends, and the only such point  *)
(* is the asyncio.sleep of _npu_inference, taken when the engine holds no   *)
(* compiled model.                                                          *)

MaxRequests == 2

Maru == "U+3002"

\* base_responses of _postprocess_for_voice, in the order of the dict
base_responses ==
    << [key |-> <<"U+8272">>,
        responses |->
          { <<"U+9752", "U+3068", "U+9EC4", "U+8272", "U+304C", "U+898B", "U+3048",
              "U+307E", "U+3059">>,
            <<"U+304D", "U+308C", "U+3044", "U+306A", "U+8272", "U+5408", "U+3044",
              "U+3067", "U+3059", "U+306D">>,
            <<"U+9BAE", "U+3084", "U+304B", "U+306A", "U+8272", "U+5F69", "U+3067",
              "U+3059">> }],
       [key |-> <<"U+4F55">>,
        responses |->
          { <<"U+56F3", "U+5F62", "U+304C", "U+63CF", "U+304B", "U+308C", "U+3066",
              "U+3044", "U+307E", "U+3059">>,
            <<"U+5E7E", "U+4F55", "U+5B66", "U+7684", "U+306A", "U+6A21", "U+69D8",
              "U+3067", "U+3059">>,
            <<"U+30A2", "U+30FC", "U+30C8", "U+4F5C", "U+54C1", "U+306E", "U+3088",
              "U+3046", "U+3067", "U+3059">> }],
       [key |-> <<"U+5F62">>,
        responses |->
          { <<"U+56DB", "U+89D2", "U+3068", "U+5186", "U+304C", "U+3042", "U+308A",
              "U+307E", "U+3059">>,
            <<"U+57FA", "U+672C", "U+56F3", "U+5F62", "U+306E", "U+7D44", "U+307F",
              "U+5408", "U+308F", "U+305B", "U+3067", "U+3059">>,
            <<"U+30B7", "U+30F3", "U+30D7", "U+30EB", "U+306A", "U+69CB", "U+56F3",
              "U+3067", "U+3059">> }] >>

\* the response to a query that holds none of the keys
DefaultResponse ==
    <<"N", "P", "U", "U+3067", "U+753B", "U+50CF", "U+3092", "U+5206",
      "U+6790", "U+3057", "U+307E", "U+3057", "U+305F">>

captions ==
    { <<"U+9752", "U+3044", "U+80CC", "U+666F", "U+306B", "U+9EC4", "U+8272",
        "U+3044", "U+56F3", "U+5F62">>,
      <<"U+8272", "U+3068", "U+308A", "U+3069", "U+308A", "U+306E", "U+5E7E",
        "U+4F55", "U+5B66", "U+56F3", "U+5F62">>,
      <<"U+30B7", "U+30F3", "U+30D7", "U+30EB", "U+3067", "U+7F8E", "U+3057",
        "U+3044", "U+69CB", "U+56F3">> }

VeryClear ==
    <<"U+3002", "U+3068", "U+3066", "U+3082", "U+660E", "U+78BA", "U+3067", "U+3059">>

Confirmed ==
    <<"U+3002", "U+78BA", "U+8A8D", "U+3067", "U+304D", "U+307E", "U+3057", "U+305F">>

\* lines 303-323: the responses random.choice can pick for a query
BaseResponses(query) ==
    IF Len(query) > 0
    THEN LET hits == {i \in 1..Len(base_responses) : Contains(query, base_responses[i].key)}
         IN  IF hits = {} THEN {DefaultResponse}
             ELSE base_responses[CHOOSE i \in hits : \A j \in hits : i <= j].responses
    ELSE captions

\* lines 326-331: the suffix for a confidence, held in tenths
ConfidenceSuffix(confidence) ==
    IF confidence > 8 THEN VeryClear
    ELSE IF confidence > 6 THEN Confirmed
    ELSE <<Maru>>

\* lines 348-351: text[:limit], and the full stop appended after the cut
Cut(text, limit) ==
    IF EndsWith(SubSeq(text, 1, limit), <<Maru>>)
    THEN SubSeq(text, 1, limit)
    ELSE SubSeq(text, 1, limit) \o <<Maru>>

\* _optimize_for_voice(text) under max_response_length = limit
optimize_for_voice(text, limit) ==
    LET cut == IF Len(text) > limit THEN Cut(text, limit) ELSE text
    IN  Strip(ReplaceChar(ReplaceChar(cut, "U+30FB", "U+3001"), "U+2026", Maru))

\* _postprocess_for_voice(npu_output, query): the responses it can return
postprocess_for_voice(query, confidence, limit) ==
    {optimize_for_voice(base \o ConfidenceSuffix(confidence), limit) :
        base \in BaseResponses(query)}

\* float(npu_output.max()) in tenths: the dummy output [[1.0, 0.8, 0.6]] of
\* the fallback gives 1.0, a compiled model any value
Confidences == {10, 7, 5}
DummyConfidence == 10

\* the queries: none (a caption is asked for), one without a key, one with
\* two keys
VoiceQueries == {<<>>, <<"h", "i">>, <<"U+5F62", "U+8272">>}

\* a request: the endpoint (kind), where its handler stands (sleeping in
\* _npu_inference, or done), the copy voice_quick saved (0: none), and once
\* done the HTTP status, the response and the limit it was cut under
Request(kind, pc, query, original_config, status, response, limit) ==
    [kind |-> kind, pc |-> pc, query |-> query, original_config |-> original_config,
     status |-> status, response |-> response, limit |-> limit]

\* voice_infer up to its first suspension, lines 361-403: the set of records
\* the request can be in then, under the limit in force
voice_infer(kind, query, image_ok, original_config, limit) ==
    IF ~npu_voice.ready
    THEN {Request(kind, "done", query, original_config, 503, <<>>, 0)}
    ELSE IF ~image_ok
    THEN {Request(kind, "done", query, original_config, 400, <<>>, 0)}
    ELSE IF npu_voice.compiled
    THEN {Request(kind, "done", query, original_config, 200, response, limit) :
             response \in UNION {postprocess_for_voice(query, confidence, limit) :
                                    confidence \in Confidences}}
    ELSE {Request(kind, "sleeping", query, original_config, 0, <<>>, 0)}

\* ProductionNPUVoice.__init__ and the startup of the server: the engine is
\* ready once setup_lightweight_model has run, with or without a compiled
\* model (_create_npu_optimized_model swallows its failure)
VoiceInit ==
    /\ EngineInit /\ ExtractorIdle
    /\ TextIdle /\ ImageIdle /\ BindIdle /\ BenchIdle /\ RaceIdle /\ OutputIdle
    /\ npu_voice \in {[ready |-> FALSE, compiled |-> FALSE],
                      [ready |-> TRUE, compiled |-> FALSE],
                      [ready |-> TRUE, compiled |-> TRUE]}
    /\ voice_config = [max_response_length |-> 30]
    /\ requests = <<>>

\* POST /voice/infer arrives and its handler runs to its first suspension
VoiceInfer ==
    /\ Len(requests) < MaxRequests
    /\ \E query \in VoiceQueries, image_ok \in BOOLEAN :
       \E r \in voice_infer("infer", query, image_ok, 0,
                            voice_config.max_response_length) :
          requests' = Append(requests, r)
    /\ UNCHANGED <<npu_voice, voice_config>>
    /\ UNCHANGED <<xvars, evars, tvars, ivars, nvars, bvars, rvars, lvars, ovars>>

\* POST /voice/quick arrives, lines 438-448: the copy is saved, the limit
\* set to 20, and the finally clause has run if the handler did not suspend
VoiceQuick ==
    /\ Len(requests) < MaxRequests
    /\ \E query \in VoiceQueries, image_ok \in BOOLEAN :
       \E r \in voice_infer("quick", query, image_ok,
                            voice_config.max_response_length, 20) :
          /\ requests' = Append(requests, r)
          /\ voice_config' =
                IF r.pc = "done" THEN [max_response_length |-> r.original_config]
                ELSE [max_response_length |-> 20]
    /\ UNCHANGED npu_voice
    /\ UNCHANGED <<xvars, evars, tvars, ivars, nvars, bvars, rvars, lvars, ovars>>

\* a handler wakes from the sleep of _npu_inference and runs to its end:
\* the response is cut under the limit in force now, and the finally clause
\* of voice_quick puts its copy back
VoiceResume ==
    /\ \E i \in 1..Len(requests) :
          /\ requests[i].pc = "sleeping"
          /\ \E response \in postprocess_for_voice(requests[i].query, DummyConfidence,
                                                   voice_config.max_response_length) :
                requests' = [requests EXCEPT ![i] =
                                Request(requests[i].kind, "done", requests[i].query,
                                        requests[i].original_config, 200, response,
                                        voice_config.max_response_length)]
          /\ voice_config' =
                IF requests[i].kind = "quick"
                THEN [max_response_length |-> requests[i].original_config]
                ELSE voice_config
    /\ UNCHANGED npu_voice
    /\ UNCHANGED <<xvars, evars, tvars, ivars, nvars, bvars, rvars, lvars, ovars>>

VoiceNext == VoiceInfer \/ VoiceQuick \/ VoiceResume

SpecVoice == VoiceInit /\ [][VoiceNext]_vars

-----------------------------------------------------------------------------
(* Properties of the voice server, checked under SpecVoice.                *)

Answered(i) == requests[i].pc = "done" /\ requests[i].status = 200

\* C21: the voice-optimised response has at most max_response_length
\* characters: at most 30 for /voice/infer and at most 20 for /voice/quick.
C21_WithinLimit ==
    \A i \in 1..Len(requests) :
        Answered(i) =>
            /\ Len(requests[i].response) <= requests[i].limit
            /\ requests[i].kind = "infer" => Len(requests[i].response) <= 30
            /\ requests[i].kind = "quick" => Len(requests[i].response) <= 20

\* C30: once every request has completed, max_response_length is back at
\* 30, and no /voice/infer request was answered under the limit of 20.
C30_ConfigRestored ==
    /\ (\A i \in 1..Len(requests) : requests[i].pc = "done") =>
           voice_config.max_response_length = 30
    /\ \A i \in 1..Len(requests) :
           (Answered(i) /\ requests[i].kind = "infer") => requests[i].limit # 20

-----------------------------------------------------------------------------
(* Further properties of the extractor, checked under SpecExtract.         *)

\* the position of a key in a list of keys, and in the output map
KeyIndex(keys, k) == CHOOSE i \in 1..Len(keys) : keys[i] = k
InsertionIndex(outs, k) == CHOOSE i \in 1..Len(outs) : outs[i].key = k

\* C22: among candidates of equal priority the order of the attempts is
\* fixed: the priority-10 keys are attempted in the order of priority_keys,
\* however the output map was built, and the priority-5 and the priority-1
\* keys are each attempted in the insertion order of the output map.
C22_TiesInFixedOrder ==
    xpc \in {"loop", "done"} =>
        /\ Len(attempted) <= Len(text_candidates)
        /\ \A i \in 1..Len(attempted) : attempted[i] = text_candidates[i].key
        /\ \A i, j \in 1..Len(text_candidates) :
              (i < j /\ text_candidates[i].priority = text_candidates[j].priority) =>
                  LET a == text_candidates[i].key
                      b == text_candidates[j].key
                  IN  IF text_candidates[i].priority = 10
                      THEN KeyIndex(priority_keys, a) < KeyIndex(priority_keys, b)
                      ELSE InsertionIndex(outputs, a) < InsertionIndex(outputs, b)

\* answer was put into the map before generated_text, neither value could
\* be decoded, and generated_text was attempted first
C22_Witness ==
    /\ xpc = "loop"
    /\ Len(outputs) = 2
    /\ outputs[1].key = "answer" /\ outputs[2].key = "generated_text"
    /\ attempted = <<"generated_text", "answer">>

\* two keys of priority 5 were attempted in the order they were put in
C22_WitnessInsertion ==
    /\ xpc = "loop"
    /\ Len(outputs) = 2
    /\ outputs[1].key = "text_logits" /\ outputs[2].key = "my_text"
    /\ Len(attempted) >= 2
    /\ attempted[1] = "text_logits" /\ attempted[2] = "my_text"

-----------------------------------------------------------------------------
(* Further properties of the inference entry points, checked under Spec.   *)

\* C23: an inference request invokes the compiled model at most once, and
\* only if the name was registered when the request began and preprocessing
\* gave a usable result (an image tensor for infer_image and
\* infer_multimodal, at least one bound input port for infer_text); a
\* request that fails before that point never invokes the model.
C23_InvokedAtMostOnce ==
    IsInferCall =>
        /\ last_call.invocations \in {0, 1}
        /\ last_call.invocations = 1 =>
              /\ last_call.was_loaded
              /\ last_call.pre_done
              /\ last_call.op \in {"infer_image", "infer_multimodal"} => last_call.image_ok
              /\ last_call.op = "infer_text" => DOMAIN last_call.inputs # {}
        /\ (~last_call.was_loaded \/ last_call.result.isnone) =>
              last_call.invocations = 0
        /\ last_call.invoke_raised => last_call.invocations = 1

\* infer_image on a registered model whose image decoded has invoked the
\* model once and the invocation returned
C23_Witness ==
    /\ last_call.op = "infer_image"
    /\ last_call.was_loaded
    /\ last_call.image_ok
    /\ last_call.invocations = 1
    /\ ~last_call.invoke_raised
    /\ last_call.result.success

-----------------------------------------------------------------------------
(* Further properties of the extractor's error handling, checked under     *)
(* SpecExtract.                                                            *)

\* the head of the marker decode_token_ids returns from its except clause
DecodingError ==
    <<"[", "D", "e", "c", "o", "d", "i", "n", "g", " ",
      "E", "r", "r", "o", "r", ":">>

\* C27: the text the extractor returns never carries an internal error
\* marker, neither [Generation Error] nor [Decoding Error: ...]; a candidate
\* whose sampling or decoding fails is passed over
C27_NoErrorMarker ==
    xpc = "done" =>
        /\ ~Contains(xresult, GenerationError)
        /\ ~Contains(xresult, DecodingError)

-----------------------------------------------------------------------------
(* Further properties of the registry, checked under Spec.                 *)

\* the metadata get_model_info returns for the name is the one built from
\* the handle stored under the name
Describes(model_name) ==
    /\ get_model_info(model_name).path = models[model_name].path
    /\ get_model_info(model_name).inputs = ModelFile(models[model_name].path).inputs
    /\ get_model_info(model_name).outputs = ModelFile(models[model_name].path).outputs

\* C28: after every completed load_model or unload_model call, whatever it
\* returned, the names of list_loaded_models are the names with metadata in
\* get_model_info, and the metadata describes the handle stored under the name
C28_RegistryConsistent ==
    last_call.op \in {"load_model", "unload_model"} =>
        /\ list_loaded_models = {n \in Names : get_model_info(n) # NoConfig}
        /\ \A n \in list_loaded_models : Describes(n)

-----------------------------------------------------------------------------
(* load_model on one worker thread and unload_model on another, one        *)
(* statement of each at a time: the engine holds no lock, so the           *)
(* statements of the two calls interleave in every order.                  *)

\* the load thread between two statements: the arguments and the locals
LoadThread(pc, model_name, model_path, model_type, compiled_model, ret) ==
    [pc |-> pc, name |-> model_name, path |-> model_path, type |-> model_type,
     handle |-> compiled_model, ret |-> ret]

\* load_model, lines 45-56: the path test and the compilation, with the two
\* early returns of False
LoadCompile ==
    /\ loading.pc = "idle"
    /\ \E model_name \in Names, model_path \in Paths, model_type \in RaceTypes :
          IF LoadFailsEarly(model_path)
          THEN /\ loading' = LoadThread("returned", model_name, model_path,
                                        model_type, NoHandle, FALSE)
               /\ UNCHANGED next_handle
          ELSE /\ next_handle <= MaxHandles
               /\ next_handle' = next_handle + 1
               /\ loading' = LoadThread("store_handle", model_name, model_path, model_type,
                                        compile_model(model_path, next_handle), FALSE)
    /\ UNCHANGED <<xvars, models, model_configs, last_call,
                   tvars, ivars, nvars, bvars, rvars, qvars, ovars>>

\* line 59: self.models[model_name] = compiled_model
LoadStoreHandle ==
    /\ loading.pc = "store_handle"
    /\ models' = StoreHandle(models, loading.name, loading.handle)
    /\ loading' = [loading EXCEPT !.pc = "store_config"]
    /\ UNCHANGED <<xvars, model_configs, next_handle, last_call,
                   tvars, ivars, nvars, bvars, rvars, qvars, ovars>>

\* lines 62-89: the port metadata is read from the local handle and the
\* config is stored; any_name raising reaches the except clause at line 91
LoadStoreConfig ==
    /\ loading.pc = "store_config"
    /\ IF ModelFile(loading.path).named
       THEN /\ model_configs' =
                   StoreConfig(model_configs, loading.name,
                               ModelConfig(loading.type, loading.path, loading.handle))
            /\ loading' = [loading EXCEPT !.pc = "returned", !.ret = TRUE]
       ELSE /\ UNCHANGED model_configs
            /\ loading' = [loading EXCEPT !.pc = "returned", !.ret = FALSE]
    /\ UNCHANGED <<xvars, models, next_handle, last_call,
                   tvars, ivars, nvars, bvars, rvars, qvars, ovars>>

\* the caller has the result; another load may come
LoadDone ==
    /\ loading.pc = "returned"
    /\ loading' = [pc |-> "idle"]
    /\ UNCHANGED <<xvars, evars, tvars, ivars, nvars, bvars, rvars, qvars, ovars>>

LoadRaceNext ==
    \/ LoadCompile \/ LoadStoreHandle \/ LoadStoreConfig \/ LoadDone
    \/ UnloadCheck \/ UnloadDelModels \/ UnloadDelConfigs \/ UnloadDone

SpecLoadRace == Init /\ [][LoadRaceNext]_vars

\* both calls on the same name have returned and neither caller has taken
\* up its next call
BothReturned(model_name) ==
    /\ loading.pc = "returned" /\ loading.name = model_name
    /\ unloading.pc = "returned" /\ unloading.name = model_name

\* C29: once load_model(name) and unload_model(name), run with their
\* statements interleaved in any order, have both returned (each with a
\* boolean, none with an exception), name is in list_loaded_models exactly
\* when get_model_info(name) is present
C29_ConsistentAfterRace ==
    \A n \in Names :
        BothReturned(n) =>
            /\ loading.ret \in BOOLEAN /\ unloading.ret \in BOOLEAN
            /\ n \in list_loaded_models <=> get_model_info(n) # NoConfig

-----------------------------------------------------------------------------
(* The output side of TextOutputProcessor called directly:                 *)
(* clean_generated_text and format_conversation_output on every text of at *)
(* most MaxOutLen characters over OutAlphabet and on the example texts,    *)
(* process_logits_to_text on every score vector of top_k to MaxVocab       *)
(* scores over Scores, alone, as the last row of a 2-D array and as the    *)
(* last row of the first batch of a 3-D array.  One call is followed from  *)
(* the idle state: a call reads no state of the processor, so what came    *)
(* before does not change what it returns.                                 *)

MaxOutLen == 3
MaxVocab == 6

OutAlphabet == {"a", NL, " ", "."}

\* texts with a special token inside a special token, and with two sentences
OutExampleTexts ==
    { <<"<", "s", ">", "a">>,
      <<"<", "<", "s", ">", "s", ">">>,
      <<"<", "p", "<", "s", ">", "a", "d", ">", "a">>,
      <<"a", NL, NL, "b", ".", " ", "c", NL, "d">> }

OutTexts ==
    UNION {[1..n -> OutAlphabet] : n \in 0..MaxOutLen} \cup OutExampleTexts

OutPrompts ==
    { <<>>, <<"h", "i">>, <<"w", "h", "y", "?">>, Explain, Teach \o <<"t", "e">>,
      Explain \o <<"?">>, Question \o Explain }

\* scores in tenths
Scores == {-10, 0, 25}
ScoreVectors == UNION {[1..n -> Scores] : n \in top_k..MaxVocab}

\* the row and the batch of n scores a row that the reduction must pass over
OtherRow(n) == [i \in 1..n |-> IF i % 2 = 1 THEN -10 ELSE 25]
OtherBatch(n) == <<[i \in 1..n |-> IF i = 1 THEN 25 ELSE 0], [i \in 1..n |-> 0]>>

LogitArrays ==
    {Array1(v) : v \in ScoreVectors}
        \cup {Array2(<<OtherRow(Len(v)), v>>) : v \in ScoreVectors}
        \cup {Array3(<< <<OtherRow(Len(v)), v>>, OtherBatch(Len(v)) >>) : v \in ScoreVectors}
        \cup {LogitsPrintable, LogitsShort, Array2(<<>>), Array3(<<>>)}

\* a call as the caller sees it, with the locals of process_logits_to_text:
\* the reduced distribution and the sampled token id (-1 where none is)
OutputCall(op, text, user_prompt, array, vec, id, result) ==
    [op |-> op, text |-> text, prompt |-> user_prompt, array |-> array,
     vec |-> vec, id |-> id, result |-> result]

\* process_logits_to_text, lines 50-76: every outcome of one call
SampleLogits(v) ==
    LET r == ReduceLogits(v)
    IN  IF ~r.ok \/ Len(r.vec) < top_k
        THEN {OutputCall("process_logits_to_text", <<>>, <<>>, v, <<>>, -1,
                         GenerationError)}
        ELSE {OutputCall("process_logits_to_text", <<>>, <<>>, v, r.vec, id,
                         decode_token_ids(<<10 * id>>)) :
                 id \in SampleableIds(ScaleLogits(r.vec))}

OutputInit ==
    /\ EngineInit /\ ExtractorIdle
    /\ TextIdle /\ ImageIdle /\ BindIdle /\ BenchIdle /\ RaceIdle /\ VoiceIdle
    /\ OutputIdle

CleanGeneratedText ==
    /\ OutputIdle
    /\ \E text \in OutTexts :
          ocall' = OutputCall("clean_generated_text", text, <<>>, OtherVal, <<>>, -1,
                              clean_generated_text(text))
    /\ UNCHANGED <<xvars, evars, tvars, ivars, nvars, bvars, rvars, lvars, qvars>>

FormatConversationOutput ==
    /\ OutputIdle
    /\ \E text \in OutTexts, user_prompt \in OutPrompts :
          ocall' = OutputCall("format_conversation_output", text, user_prompt, OtherVal,
                              <<>>, -1, format_conversation_output(text, user_prompt))
    /\ UNCHANGED <<xvars, evars, tvars, ivars, nvars, bvars, rvars, lvars, qvars>>

ProcessLogitsToText ==
    /\ OutputIdle
    /\ \E v \in LogitArrays : ocall' \in SampleLogits(v)
    /\ UNCHANGED <<xvars, evars, tvars, ivars, nvars, bvars, rvars, lvars, qvars>>

OutputNext == CleanGeneratedText \/ FormatConversationOutput \/ ProcessLogitsToText

SpecOutput == OutputInit /\ [][OutputNext]_vars

-----------------------------------------------------------------------------
(* Properties of the output side, checked under SpecOutput.                *)

HasNewline(text) == \E i \in 1..Len(text) : text[i] = NL

\* the cleaned text with every newline turned into one space
Flattened(text) == ReplaceChar(clean_generated_text(text), NL, " ")

\* C24 as stated: for every non-empty text and every prompt that signals an
\* explanation, format_conversation_output returns the text with every
\* embedded newline replaced by one space, so the result holds no newline
C24_ExplainFlattens ==
    ( /\ ocall.op = "format_conversation_output"
      /\ Len(ocall.text) > 0
      /\ IsExplainPrompt(ocall.prompt) )
    => /\ ~HasNewline(ocall.result)
       /\ ocall.result = Flattened(ocall.text)

\* C24 amended: the same for every prompt that signals an explanation and
\* carries no question cue; with a question cue the question branch is taken
\* and the newlines of the cleaned text stay
C24_ExplainFlattensUnlessQuestion ==
    ( /\ ocall.op = "format_conversation_output"
      /\ Len(ocall.text) > 0
      /\ IsExplainPrompt(ocall.prompt) )
    => IF IsQuestionPrompt(ocall.prompt)
       THEN HasNewline(ocall.result) <=> HasNewline(clean_generated_text(ocall.text))
       ELSE /\ ~HasNewline(ocall.result)
            /\ ocall.result = Flattened(ocall.text)

\* an explanation prompt without a question cue, on a text whose cleaned form
\* keeps a newline
C24_Witness ==
    /\ ocall.op = "format_conversation_output"
    /\ ocall.text = <<"a", NL, NL, "b", ".", " ", "c", NL, "d">>
    /\ ocall.prompt = Explain
    /\ HasNewline(clean_generated_text(ocall.text))
    /\ ocall.result = <<"A", " ", "b", ".", " ", "C", " ", "d", ".">>

\* C25: the text clean_generated_text returns holds none of the denylisted
\* special-token literals as a substring
C25_NoSpecialTokenLeft ==
    ocall.op = "clean_generated_text" =>
        \A i \in 1..Len(special_tokens) : ~Contains(ocall.result, special_tokens[i])

\* the scores of the last row of the first batch (the row itself for 1-D)
LastRowOfFirstBatch(array) ==
    IF array.ndim = 1 THEN array.data[1][1]
    ELSE array.data[1][Len(array.data[1])]

\* the k-th highest score of vec, counted with repetitions
KthHighest(vec, k) ==
    CHOOSE x \in {vec[i] : i \in 1..Len(vec)} :
        /\ Cardinality({i \in 1..Len(vec) : vec[i] > x}) < k
        /\ Cardinality({i \in 1..Len(vec) : vec[i] >= x}) >= k

\* index (0-based) is in a choice of the top_k highest scores of vec: its
\* score is not below the top_k-th highest
AmongTopK(index, vec) ==
    /\ index + 1 \in 1..Len(vec)
    /\ vec[index + 1] >= KthHighest(vec, top_k)

\* C26: when a token id is decoded from a logit array, the array was reduced
\* to one distribution (batch 0 when 3-D, then the last row when 2-D) and the
\* id is the index of one of the top_k highest scores of that distribution
C26_SampledAmongTopK ==
    (ocall.op = "process_logits_to_text" /\ ocall.id # -1) =>
        /\ ocall.vec = LastRowOfFirstBatch(ocall.array)
        /\ AmongTopK(ocall.id, ocall.vec)
        /\ ocall.result = decode_token_ids(<<10 * ocall.id>>)

\* a 3-D array of two batches whose distribution has a score outside every
\* choice of the top_k highest, and a sampled id
C26_Witness ==
    /\ ocall.op = "process_logits_to_text"
    /\ ocall.array.ndim = 3 /\ Len(ocall.array.data) = 2
    /\ ocall.vec = <<25, -10, 25, 25, 25, 25>>
    /\ ocall.id = 5
    /\ ~AmongTopK(1, ocall.vec)
====
